---- MODULE Spec2Model ----
(***************************************************************************)
(* Verification model of the rover grading core:                           *)
(*   - Runnable.run          (src/driver/runnable.ts)                      *)
(*   - execute               (src/util/executor.ts)                        *)
(*   - Mocha instance states (mocha.ts, src/unnamed/part_016)              *)
(* Each component is a state machine of its own (RunnableSpec, ...); the   *)
(* variables of the other components stay at their initial value.         *)
(***************************************************************************)
EXTENDS Integers, Sequences, FiniteSets, TLC

(***************************************************************************)
(* Bounds                                                                  *)
(***************************************************************************)
MaxDoneCalls == 2
MaxMs == 2
MaxLimit == 2
MaxBytes == 2
MaxRunCalls == 3
MaxSuites == 3
MaxRetries == 2
MaxOffset == 30
MaxDecls == 2
MaxResets == 2
MaxText == 1
MaxEvents == 3
MaxClock == 2
MaxCallBytes == 2
CallLimit == 1
MaxRuns == 2
MaxTests == 2

INT_MAX == 2147483647
DefaultTimeout == 2000

\* the Runnable and the closure of its current run(fn) invocation
VARIABLES
    cfg,              \* construction inputs: async, fnKind, allowUncaught, asyncOnly, parentPending
    timeoutMs,        \* this._timeout
    timedOut,         \* this.timedOut
    pending,          \* this.pending
    timer,            \* this.timer: the pending setTimeout and its closure's ms
    callback,         \* this.callback is set (to the current invocation's done)
    duration,         \* this.duration (-1: undefined)
    finished,         \* run()'s local `finished`
    errorWasHandled,  \* run()'s local `errorWasHandled`
    elapsed,          \* new Date() - start (saturates at MaxMs + 1)
    pc,               \* position of the invocation: notStarted, inBody, waiting, ended
    plan,             \* what the body does: "silent" (no call, no throw) or "active"
    result,           \* value returned by fn.call
    promise,          \* state of the promise returned by a body without done parameter
    doneCalls,        \* number of done() calls the body made
    fnCalls,          \* arguments the completion callback fn received
    emitted           \* "error" events emitted on the runnable

runnableVars == <<cfg, timeoutMs, timedOut, pending, timer, callback, duration,
                  finished, errorWasHandled, elapsed, pc, plan, result, promise,
                  doneCalls, fnCalls, emitted>>

\* one execute call
VARIABLES
    options,               \* the merged options of the call
    spawnedProcess,        \* the child: state, exitCode, signalCode
    outData,               \* the bytes the child wrote to its standard output
    outRead,               \* how many of them the "data" events delivered
    errData,               \* the bytes the child wrote to its standard error
    errRead,               \* how many of them the "data" events delivered
    standardOutput,        \* Buffer.alloc(options.standardOutputLimit)
    standardOutputOffset,
    standardError,         \* Buffer.alloc(options.standardErrorLimit)
    standardErrorOffset,
    reason,
    killCalls,             \* spawnedProcess.kill calls of the data handlers
    timeoutKilled,         \* the timeout of the spawn options has killed the child
    exitEmitted,           \* the "exit" event was emitted
    errorEmitted,          \* the "error" event was emitted
    settled                \* the promise execute returned: state and value

execVars == <<options, spawnedProcess, outData, outRead, errData, errRead,
              standardOutput, standardOutputOffset, standardError, standardErrorOffset,
              reason, killCalls, timeoutKilled, exitEmitted, errorEmitted, settled>>

\* the Mocha instance
VARIABLES
    mochaState,                \* this._state
    cleanReferencesAfterRun,   \* this._cleanReferencesAfterRun
    previousRunner,            \* this._previousRunner (0: none)
    runners,                   \* the runner of each accepted run: none, running, done
    thrown                     \* what the last call threw

mochaVars == <<mochaState, cleanReferencesAfterRun, previousRunner, runners, thrown>>

\* one run of the runner over the suite tree
VARIABLES
    maxRetries,      \* the retries every test of the tree is configured with
    rPos,            \* the position of the runnable invoked last
    rFin,            \* `finished` of the invocation of that runnable
    rPrevPos,        \* the position of the runnable invoked before it
    rPrevFin,        \* `finished` of that earlier invocation
    rExecuting,      \* number of runnables invoked and not completed
    rSignals,        \* completion signals given by finished invocations
    rTest,           \* the test object of the current attempt
    rAttempts,       \* per suite: how often the body of its test was executed
    rState,          \* per suite: the state of its test
    rErr,            \* per suite: whose error failed its test (none, body, hook)
    rFinalRetry,     \* per suite: currentRetry of its test at finalization
    rBodyFails,      \* per suite: failed attempts of the body of its test
    rHookFailures,   \* per suite: failures reported for its beforeAll hook
    rTestFailures,   \* per suite: failures reported for its test
    rAfterAll,       \* the suites whose afterAll hook was invoked
    rLog             \* the hooks and the body invoked in the current attempt

runnerVars == <<maxRetries, rPos, rFin, rPrevPos, rPrevFin, rExecuting, rSignals, rTest,
                rAttempts, rState, rErr, rFinalRetry, rBodyFails, rHookFailures,
                rTestFailures, rAfterAll, rLog>>

\* a Runnable whose timeout(ms) is called with a number
VARIABLES
    tCalled,         \* timeout(ms) was called
    tArg,            \* the ms of the latest call
    tTimeout         \* this._timeout

timeoutVars == <<tCalled, tArg, tTimeout>>

\* the suite tree under construction by the BDD interface, and its tests
VARIABLES
    mochaOptions,    \* mocha.options: forbidOnly, forbidPending, grep, invert
    suites,          \* the interface's stack of suites, suites[0] first
    suiteObjs,       \* the Suite objects in creation order, the root first
    tests,           \* the Test objects in creation order
    declThrown,      \* the error the latest declaration raised, or "none"
    loaded,          \* the files are loaded, the tree is handed to a run
    resets           \* the number of reset() calls on tests so far

treeVars == <<mochaOptions, suites, suiteObjs, tests, declThrown, loaded, resets>>

\* one call of spawnPrints
VARIABLES
    spCommand,       \* the command argument is a non-empty string
    spExpected,      \* the arguments expectedOutput and expectedError
    spExecution,     \* the promise execute returned: pending, resolved with a result, rejected
    spOutcome        \* the promise spawnPrints returned

spawnPrintsVars == <<spCommand, spExpected, spExecution, spOutcome>>

\* a runner's stats collector and the events the runner emitted
VARIABLES
    stats,           \* runner.stats
    onceListeners,   \* the events whose once-listener is still registered
    eventCount,      \* per event: how many times the runner emitted it
    clock              \* the clock, in milliseconds

statsVars == <<stats, onceListeners, eventCount, clock>>

\* two execute calls in progress at the same time
VARIABLES
    procs,           \* per call: the child process it spawned
    written,         \* per call: the bytes its child wrote to stdout and to stderr
    delivery,        \* per call: the bytes handed to its data handlers, the events emitted
    closures,        \* per promise executor: its local variables
    promises         \* per call: the promise it returned

callVars == <<procs, written, delivery, closures, promises>>

\* a Mocha instance that keeps its references, its suite tree and its runs
VARIABLES
    sTests,          \* the Test objects of the tree, in declaration order
    sBodies,         \* per test: what its body does, every time it is run
    sState,          \* this._state
    sPrevious,       \* this._previousRunner: 0 or the number of the run
    sRunner,         \* the number of the latest run() call
    sCursor,         \* the run in progress: 0 not started, i after test i, beyond: ended
    sStats,          \* the stats of the runner of the latest run
    sOnce,           \* the once-listeners left on that runner
    sReports         \* per completed run: the tests and the counters at its end

sessionVars == <<sTests, sBodies, sState, sPrevious, sRunner, sCursor, sStats, sOnce,
                 sReports>>

\* the standard input that execute() hands to the child
VARIABLES
    customOptions,   \* the caller's options: with or without a standardInput key
    stdinCalled,     \* execute() has run its promise executor
    stdinWritten,    \* the characters execute() wrote to spawnedProcess.stdin
    stdinEnded,      \* execute() called spawnedProcess.stdin.end()
    stdinRead,       \* how many of those characters the child has read
    stdinEof         \* the child has seen the end of its standard input

stdinVars == <<customOptions, stdinCalled, stdinWritten, stdinEnded, stdinRead, stdinEof>>

\* one Test or Hook object between its construction and its resets
VARIABLES
    obj,             \* the object: its configuration and its per-run state
    objOp            \* the last operation on it: "new", "set", "run" or "reset"

objVars == <<obj, objOp>>

vars == <<runnableVars, execVars, mochaVars, runnerVars, timeoutVars, treeVars, spawnPrintsVars, statsVars, callVars, sessionVars, stdinVars, objVars>>

Min(a, b) == IF a < b THEN a ELSE b
Max(a, b) == IF a > b THEN a ELSE b

(***************************************************************************)
(* Runnable: one Runnable object and the closure of its current run(fn)    *)
(* invocation.  A later invocation replaces the closure of the earlier one.*)
(***************************************************************************)
NoErr == [kind |-> "none", limit |-> 0]
Err(k) == [kind |-> k, limit |-> 0]

\* createTimeoutError(msg, ms, file): error.timeout = ms
createTimeoutError(ms) == [kind |-> "TimeoutError", limit |-> ms]

\* createMultipleDoneError(runnable, originalErr): error.value = originalErr
createMultipleDoneError(err) == [kind |-> "MultipleDoneError", value |-> err.kind]

\* utils.clamp
clamp(value, lo, hi) == Min(Max(value, lo), hi)

\* Runnable.timeout(ms): the value stored in _timeout
timeoutStored(ms) ==
    LET c == clamp(ms, 0, INT_MAX)
    IN  IF c = 0 \/ c = INT_MAX THEN 0 ELSE c

\* values passed to timeout(ms) by the configuration or by a body
TimeoutInputs == {-1, 0, INT_MAX} \cup (1..MaxMs)

NoTimer == [set |-> FALSE, armed |-> FALSE, left |-> 0, ms |-> 0]

\* isPending that does not ask the parent suite
isPending_selfOnly == pending

\* Runnable.isPending
isPending == pending \/ cfg.parentPending

\* Runnable.clearTimeout: the timer object stays in this.timer
clearTimeout(t) == [t EXCEPT !.armed = FALSE]

\* Runnable.resetTimeout with this._timeout = ms: the timer after the call
resetTimeout(t, ms) ==
    IF ms = 0
        THEN t
        ELSE [set |-> TRUE, armed |-> TRUE, left |-> ms, ms |-> ms]

\* Runnable.toValueOrError
toValueOrError(value) ==
    IF value = "falsy" THEN Err("InvalidExceptionError") ELSE Err("Error")

\* multiple(err) without its errorWasHandled test
multiple_always(em, err, ewh) == Append(em, createMultipleDoneError(err))

\* run()'s inner function multiple(err): the events after the call
multiple(em, err, ewh) ==
    IF ewh THEN em ELSE Append(em, createMultipleDoneError(err))

\* done() without its comparison of the duration with the timeout
doneIn_anyDuration(fin, calls, em, el, err, ewh) ==
    IF timedOut
        THEN [finished |-> fin, duration |-> duration, timer |-> timer,
              fnCalls |-> calls, emitted |-> em, ewh |-> ewh]
    ELSE IF fin
        THEN [finished |-> TRUE, duration |-> duration, timer |-> timer,
              fnCalls |-> calls, emitted |-> multiple(em, err, ewh), ewh |-> TRUE]
    ELSE [finished |-> TRUE, duration |-> el, timer |-> clearTimeout(timer),
          fnCalls |-> Append(calls, err), emitted |-> em, ewh |-> ewh]

\* done() without its `timedOut` test
doneIn_afterTimeout(fin, calls, em, el, err, ewh) ==
    IF fin
        THEN [finished |-> TRUE, duration |-> duration, timer |-> timer,
              fnCalls |-> calls, emitted |-> multiple(em, err, ewh), ewh |-> TRUE]
    ELSE [finished |-> TRUE, duration |-> el, timer |-> clearTimeout(timer),
          fnCalls |-> Append(calls,
                        IF err = NoErr /\ el > timeoutMs /\ timeoutMs > 0
                            THEN createTimeoutError(timeoutMs) ELSE err),
          emitted |-> em, ewh |-> ewh]

\* done() without its `finished` test
doneIn_refinish(fin, calls, em, el, err, ewh) ==
    IF timedOut
        THEN [finished |-> fin, duration |-> duration, timer |-> timer,
              fnCalls |-> calls, emitted |-> em, ewh |-> ewh]
        ELSE [finished |-> TRUE, duration |-> el, timer |-> clearTimeout(timer),
              fnCalls |-> Append(calls, err), emitted |-> em, ewh |-> ewh]

\* run()'s inner function done(err) of a closure whose locals are fin
\* (finished) and ewh (errorWasHandled), el milliseconds after start, with
\* calls and em the callback calls and events so far: what it leaves behind
doneIn(fin, calls, em, el, err, ewh) ==
    IF timedOut
        THEN [finished |-> fin, duration |-> duration, timer |-> timer,
              fnCalls |-> calls, emitted |-> em, ewh |-> ewh]
    ELSE IF fin
        THEN [finished |-> TRUE, duration |-> duration, timer |-> timer,
              fnCalls |-> calls, emitted |-> multiple(em, err, ewh), ewh |-> TRUE]
    ELSE [finished |-> TRUE, duration |-> el, timer |-> clearTimeout(timer),
          fnCalls |-> Append(calls,
                        IF err = NoErr /\ el > timeoutMs /\ timeoutMs > 0
                            THEN createTimeoutError(timeoutMs) ELSE err),
          emitted |-> em, ewh |-> ewh]

\* done(err) of the current invocation
done(err, ewh) == doneIn(finished, fnCalls, emitted, elapsed, err, ewh)

\* the assignment of what done() left behind; ewhAfter is errorWasHandled
\* once the calling handler is through
ApplyDone(d, ewhAfter) ==
    /\ finished' = d.finished
    /\ duration' = d.duration
    /\ fnCalls' = d.fnCalls
    /\ emitted' = d.emitted
    /\ errorWasHandled' = ewhAfter

RunnableInit ==
    /\ cfg \in [async : BOOLEAN, fnKind : {"function", "notCallable", "undefined"},
                allowUncaught : BOOLEAN, asyncOnly : BOOLEAN, parentPending : BOOLEAN]
    /\ timeoutMs \in {timeoutStored(ms) : ms \in TimeoutInputs}
    /\ timedOut = FALSE
    /\ pending = FALSE
    /\ timer = NoTimer
    /\ callback = FALSE
    /\ duration = -1
    /\ finished = FALSE
    /\ errorWasHandled = FALSE
    /\ elapsed = 0
    /\ pc = "notStarted"
    /\ plan = "silent"
    /\ result = "undefined"
    /\ promise = "none"
    /\ doneCalls = 0
    /\ fnCalls = <<>>
    /\ emitted = <<>>

\* Runnable.run(fn), up to the call of the body.  A further invocation
\* starts once the completion callback of the earlier one was called.
Run(p) ==
    /\ \/ pc = "notStarted"
       \/ pc \in {"waiting", "ended"} /\ fnCalls # <<>>
    /\ plan' = p
    /\ elapsed' = 0
    /\ result' = "undefined"
    /\ promise' = "none"
    /\ doneCalls' = 0
    /\ IF isPending
        THEN /\ fnCalls' = <<NoErr>>
             /\ pc' = "ended"
             /\ UNCHANGED <<callback, timer, duration, finished, errorWasHandled, emitted>>
       ELSE IF cfg.fnKind = "notCallable"
        THEN LET d == doneIn(FALSE, <<>>, <<>>, 0, Err("TypeError"), FALSE)
             IN  /\ callback' = TRUE
                 /\ ApplyDone(d, d.ewh)
                 /\ timer' = d.timer
                 /\ pc' = "ended"
       ELSE /\ callback' = TRUE
            /\ timer' = IF cfg.async /\ cfg.fnKind = "function"
                            THEN resetTimeout(timer, timeoutMs) ELSE timer
            /\ pc' = "inBody"
            /\ fnCalls' = <<>>
            /\ finished' = FALSE
            /\ errorWasHandled' = FALSE
            /\ emitted' = <<>>
            /\ UNCHANGED duration
    /\ UNCHANGED <<cfg, timeoutMs, timedOut, pending>>
    /\ UNCHANGED <<execVars, mochaVars, runnerVars, timeoutVars, treeVars, spawnPrintsVars, statsVars, callVars, sessionVars, stdinVars, objVars>>

\* the argument the callback of callFnAsync hands to done(), for the value
\* the body passed to it
doneArgument(arg) ==
    CASE arg = "Error" -> Err("Error")
      [] arg = "nonError" -> Err("NonError")
      [] OTHER -> IF result = "promise" THEN Err("Overspecified") ELSE NoErr

DoneArgs == {"undefined", "Error", "nonError"}

\* callFnAsync: the body calls its done callback
BodyDone(arg) ==
    /\ cfg.async /\ cfg.fnKind = "function"
    /\ plan = "active"
    /\ pc \in {"inBody", "waiting"}
    /\ doneCalls < MaxDoneCalls
    /\ doneCalls' = doneCalls + 1
    /\ LET d == done(doneArgument(arg), errorWasHandled)
       IN  /\ ApplyDone(d, d.ewh)
           /\ timer' = d.timer
    /\ UNCHANGED <<cfg, timeoutMs, timedOut, pending, callback, elapsed, pc, plan,
                   result, promise>>
    /\ UNCHANGED <<execVars, mochaVars, runnerVars, timeoutVars, treeVars, spawnPrintsVars, statsVars, callVars, sessionVars, stdinVars, objVars>>

\* Runnable.skip (body without done parameter) and asyncSkip (body with one)
BodySkip ==
    /\ cfg.fnKind = "function"
    /\ plan = "active"
    /\ pc = "inBody"
    /\ pending' = TRUE
    /\ IF cfg.async
        THEN LET d == done(NoErr, errorWasHandled)
             IN  /\ ApplyDone(d, TRUE)
                 /\ timer' = d.timer
                 /\ pc' = "waiting"
        ELSE LET d == done(NoErr, TRUE)
             IN  /\ ApplyDone(d, TRUE)
                 /\ timer' = d.timer
                 /\ pc' = "ended"
    /\ UNCHANGED <<cfg, timeoutMs, timedOut, callback, elapsed, plan, result, promise,
                   doneCalls>>
    /\ UNCHANGED <<execVars, mochaVars, runnerVars, timeoutVars, treeVars, spawnPrintsVars, statsVars, callVars, sessionVars, stdinVars, objVars>>

ThrownValues == {"Error", "falsy"}

\* the body throws synchronously: the catch blocks of run()
BodyThrows(value) ==
    /\ pc = "inBody"
    /\ plan = "active" \/ cfg.fnKind = "undefined"
    /\ cfg.fnKind = "undefined" => value = "Error"
    /\ IF cfg.allowUncaught
        THEN /\ errorWasHandled' = TRUE
             /\ UNCHANGED <<finished, duration, fnCalls, emitted, timer>>
        ELSE LET d == done(toValueOrError(value), TRUE)
             IN  /\ ApplyDone(d, TRUE)
                 /\ timer' = d.timer
    /\ pc' = IF cfg.async /\ cfg.fnKind = "function" THEN "waiting" ELSE "ended"
    /\ UNCHANGED <<cfg, timeoutMs, timedOut, pending, callback, elapsed, plan, result,
                   promise, doneCalls>>
    /\ UNCHANGED <<execVars, mochaVars, runnerVars, timeoutVars, treeVars, spawnPrintsVars, statsVars, callVars, sessionVars, stdinVars, objVars>>

ReturnValues == {"undefined", "promise"}

\* the body returns: callFnAsync and callFn after fn.call
BodyReturns(value) ==
    /\ cfg.fnKind = "function"
    /\ pc = "inBody"
    /\ result' = value
    /\ IF cfg.async
        THEN /\ pc' = "waiting"
             /\ UNCHANGED <<timer, promise, finished, duration, fnCalls, emitted,
                            errorWasHandled>>
       ELSE IF value = "promise"
        THEN /\ timer' = resetTimeout(timer, timeoutMs)
             /\ promise' = "pending"
             /\ pc' = "waiting"
             /\ UNCHANGED <<finished, duration, fnCalls, emitted, errorWasHandled>>
       ELSE LET d == done(IF cfg.asyncOnly THEN Err("AsyncOnly") ELSE NoErr,
                          errorWasHandled)
            IN  /\ ApplyDone(d, d.ewh)
                /\ timer' = d.timer
                /\ pc' = "ended"
                /\ UNCHANGED promise
    /\ UNCHANGED <<cfg, timeoutMs, timedOut, pending, callback, elapsed, plan, doneCalls>>
    /\ UNCHANGED <<execVars, mochaVars, runnerVars, timeoutVars, treeVars, spawnPrintsVars, statsVars, callVars, sessionVars, stdinVars, objVars>>

Settlements == {"resolved", "rejected", "rejectedFalsy"}

\* callFn: the returned promise settles, its then-handlers call done
PromiseSettles(how) ==
    /\ pc = "waiting"
    /\ promise = "pending"
    /\ plan = "active"
    /\ promise' = "settled"
    /\ LET err == CASE how = "resolved" -> NoErr
                    [] how = "rejected" -> Err("Error")
                    [] OTHER -> Err("RejectedFalsy")
           d == done(err, errorWasHandled)
       IN  /\ ApplyDone(d, d.ewh)
           /\ timer' = d.timer
    /\ pc' = "ended"
    /\ UNCHANGED <<cfg, timeoutMs, timedOut, pending, callback, elapsed, plan, result,
                   doneCalls>>
    /\ UNCHANGED <<execVars, mochaVars, runnerVars, timeoutVars, treeVars, spawnPrintsVars, statsVars, callVars, sessionVars, stdinVars, objVars>>

\* the setTimeout callback of resetTimeout
TimerFires ==
    /\ timer.armed
    /\ timer.left = 0
    /\ pc # "inBody"
    /\ IF timeoutMs = 0
        THEN /\ timer' = clearTimeout(timer)
             /\ UNCHANGED <<timedOut, finished, duration, fnCalls, emitted, errorWasHandled>>
        ELSE LET d == done(createTimeoutError(timer.ms), errorWasHandled)
             IN  /\ ApplyDone(d, d.ewh)
                 /\ timer' = clearTimeout(d.timer)
                 /\ timedOut' = TRUE
    /\ UNCHANGED <<cfg, timeoutMs, pending, callback, elapsed, pc, plan, result, promise,
                   doneCalls>>
    /\ UNCHANGED <<execVars, mochaVars, runnerVars, timeoutVars, treeVars, spawnPrintsVars, statsVars, callVars, sessionVars, stdinVars, objVars>>

\* one millisecond passes
Tick ==
    /\ \/ timer.armed /\ timer.left > 0
       \/ pc \in {"inBody", "waiting"} /\ ~finished /\ ~timedOut /\ elapsed <= MaxMs
    /\ timer' = IF timer.armed /\ timer.left > 0
                    THEN [timer EXCEPT !.left = @ - 1] ELSE timer
    /\ elapsed' = IF pc \in {"inBody", "waiting"} /\ ~finished /\ ~timedOut /\ elapsed <= MaxMs
                      THEN elapsed + 1 ELSE elapsed
    /\ UNCHANGED <<cfg, timeoutMs, timedOut, pending, callback, duration, finished,
                   errorWasHandled, pc, plan, result, promise, doneCalls, fnCalls, emitted>>
    /\ UNCHANGED <<execVars, mochaVars, runnerVars, timeoutVars, treeVars, spawnPrintsVars, statsVars, callVars, sessionVars, stdinVars, objVars>>

\* Runnable.timeout(ms) called by the running body
BodySetTimeout(ms) ==
    /\ plan = "active"
    /\ cfg.fnKind = "function"
    /\ pc \in {"inBody", "waiting"}
    /\ pc = "waiting" => cfg.async \/ promise = "pending"
    /\ timeoutStored(ms) # timeoutMs
    /\ timeoutMs' = timeoutStored(ms)
    /\ timer' = IF timer.set THEN resetTimeout(timer, timeoutStored(ms)) ELSE timer
    /\ UNCHANGED <<cfg, timedOut, pending, callback, duration, finished, errorWasHandled,
                   elapsed, pc, plan, result, promise, doneCalls, fnCalls, emitted>>
    /\ UNCHANGED <<execVars, mochaVars, runnerVars, timeoutVars, treeVars, spawnPrintsVars, statsVars, callVars, sessionVars, stdinVars, objVars>>

\* Runnable.reset, between two invocations
Reset ==
    /\ pc \in {"waiting", "ended"}
    /\ fnCalls # <<>>
    /\ timedOut \/ pending
    /\ timedOut' = FALSE
    /\ pending' = FALSE
    /\ UNCHANGED <<cfg, timeoutMs, timer, callback, duration, finished, errorWasHandled,
                   elapsed, pc, plan, result, promise, doneCalls, fnCalls, emitted>>
    /\ UNCHANGED <<execVars, mochaVars, runnerVars, timeoutVars, treeVars, spawnPrintsVars, statsVars, callVars, sessionVars, stdinVars, objVars>>

RunnableNext ==
    \/ \E p \in {"silent", "active"} : Run(p)
    \/ \E arg \in DoneArgs : BodyDone(arg)
    \/ BodySkip
    \/ \E v \in ThrownValues : BodyThrows(v)
    \/ \E v \in ReturnValues : BodyReturns(v)
    \/ \E how \in Settlements : PromiseSettles(how)
    \/ \E ms \in TimeoutInputs : BodySetTimeout(ms)
    \/ TimerFires
    \/ Tick
    \/ Reset

(***************************************************************************)
(* execute: one invocation, its child process and the events of the child  *)
(***************************************************************************)
\* the bytes a child writes: an ASCII byte, the lead byte and the
\* continuation byte of a two-byte UTF-8 sequence
ChildBytes == {"a", "L", "C"}

\* the UTF-8 encoding of a character: A (ASCII), NUL, E (two bytes),
\* FFFD (the replacement character, three bytes)
charBytes(c) ==
    CASE c = "A" -> <<"a">>
      [] c = "NUL" -> <<"z">>
      [] c = "E" -> <<"L", "C">>
      [] OTHER -> <<"R1", "R2", "R3">>

RECURSIVE utf8Encode(_)
utf8Encode(str) ==
    IF str = <<>> THEN <<>> ELSE charBytes(Head(str)) \o utf8Encode(Tail(str))

\* buffer.toString("utf8"): an invalid byte decodes to the replacement character
RECURSIVE utf8Decode(_)
utf8Decode(bytes) ==
    IF bytes = <<>> THEN <<>>
    ELSE IF bytes[1] = "a" THEN <<"A">> \o utf8Decode(Tail(bytes))
    ELSE IF bytes[1] = "z" THEN <<"NUL">> \o utf8Decode(Tail(bytes))
    ELSE IF bytes[1] = "L" /\ Len(bytes) >= 2 /\ bytes[2] = "C"
        THEN <<"E">> \o utf8Decode(SubSeq(bytes, 3, Len(bytes)))
    ELSE IF bytes[1] = "R1" /\ Len(bytes) >= 3 /\ bytes[2] = "R2" /\ bytes[3] = "R3"
        THEN <<"FFFD">> \o utf8Decode(SubSeq(bytes, 4, Len(bytes)))
    ELSE <<"FFFD">> \o utf8Decode(Tail(bytes))

\* the characters of str that Buffer.write stores in `room` bytes: whole
\* characters only, up to the first one that does not fit
RECURSIVE fitting(_, _)
fitting(str, room) ==
    IF str = <<>> \/ Len(charBytes(Head(str))) > room
        THEN <<>>
        ELSE <<Head(str)>> \o fitting(Tail(str), room - Len(charBytes(Head(str))))

\* Buffer.write that stores the whole string, whatever the capacity
bufferWrite_unbounded(buf, str, offset) ==
    [buf |-> SubSeq(buf, 1, offset) \o utf8Encode(str),
     written |-> Len(utf8Encode(str))]

\* buf.write(str, offset, "utf8"): the buffer after the call and the number
\* of bytes written
bufferWrite(buf, str, offset) ==
    LET bytes == utf8Encode(fitting(str, Len(buf) - offset))
    IN  [buf |-> SubSeq(buf, 1, offset) \o bytes
                    \o SubSeq(buf, offset + Len(bytes) + 1, Len(buf)),
         written |-> Len(bytes)]

\* buf.toString("utf8", 0, end)
bufferToString(buf, end) == utf8Decode(SubSeq(buf, 1, end))

\* Buffer.alloc(size)
bufferAlloc(size) == [k \in 1..size |-> "z"]

\* the spawn option killSignal under which a catchable signal is sent
killSignal_catchable == "SIGTERM"

\* the spawn option killSignal
killSignal == "SIGKILL"

\* what a signal does to the child: SIGKILL ends a running child, a
\* catchable signal ends it or is ignored, an ended child is not affected
killOutcomes(proc, sig) ==
    IF proc.state # "running" THEN {proc}
    ELSE IF sig = "SIGKILL"
        THEN {[state |-> "killed", exitCode |-> "null", signalCode |-> sig]}
    ELSE {[state |-> "killed", exitCode |-> "null", signalCode |-> sig], proc}

\* resolve / reject of a promise on which the last call wins
settle_lastWins(p, how, value) == [state |-> how, value |-> value]

\* resolve(value) / reject(value) of the promise: the first call settles it
settle(p, how, value) ==
    IF p.state = "pending" THEN [state |-> how, value |-> value] ELSE p

Reasons == {"success", "standard_output_exceeded", "standard_error_exceeded"}
ExitCodes == {0, 1}
NoValue == [exitCode |-> "null", standardOutput |-> <<>>, standardError |-> <<>>,
            reason |-> "none", signal |-> "null"]

\* execute(executable, argumentVector, customOptions) up to its return:
\* the child is spawned or the spawn has failed
ExecInit ==
    /\ options \in [standardOutputLimit : 1..MaxLimit, standardErrorLimit : 1..MaxLimit,
                    timeout : {0, 1}]
    /\ spawnedProcess \in {[state |-> st, exitCode |-> "null", signalCode |-> "null"] :
                              st \in {"running", "failed"}}
    /\ outData = <<>>
    /\ outRead = 0
    /\ errData = <<>>
    /\ errRead = 0
    /\ standardOutput = bufferAlloc(options.standardOutputLimit)
    /\ standardOutputOffset = 0
    /\ standardError = bufferAlloc(options.standardErrorLimit)
    /\ standardErrorOffset = 0
    /\ reason = "success"
    /\ killCalls = 0
    /\ timeoutKilled = FALSE
    /\ exitEmitted = FALSE
    /\ errorEmitted = FALSE
    /\ settled = [state |-> "pending", value |-> NoValue]

\* the child writes one byte to its standard output
ChildWritesOut(b) ==
    /\ spawnedProcess.state = "running"
    /\ Len(outData) + Len(errData) < MaxBytes
    /\ outData' = Append(outData, b)
    /\ UNCHANGED <<options, spawnedProcess, outRead, errData, errRead, standardOutput,
                   standardOutputOffset, standardError, standardErrorOffset, reason,
                   killCalls, timeoutKilled, exitEmitted, errorEmitted, settled>>
    /\ UNCHANGED <<runnableVars, mochaVars, runnerVars, timeoutVars, treeVars, spawnPrintsVars, statsVars, callVars, sessionVars, stdinVars, objVars>>

\* the child writes one byte to its standard error
ChildWritesErr(b) ==
    /\ spawnedProcess.state = "running"
    /\ Len(outData) + Len(errData) < MaxBytes
    /\ errData' = Append(errData, b)
    /\ UNCHANGED <<options, spawnedProcess, outData, outRead, errRead, standardOutput,
                   standardOutputOffset, standardError, standardErrorOffset, reason,
                   killCalls, timeoutKilled, exitEmitted, errorEmitted, settled>>
    /\ UNCHANGED <<runnableVars, mochaVars, runnerVars, timeoutVars, treeVars, spawnPrintsVars, statsVars, callVars, sessionVars, stdinVars, objVars>>

\* the child exits on its own
ChildExits(code) ==
    /\ spawnedProcess.state = "running"
    /\ spawnedProcess' = [state |-> "exited", exitCode |-> code, signalCode |-> "null"]
    /\ UNCHANGED <<options, outData, outRead, errData, errRead, standardOutput,
                   standardOutputOffset, standardError, standardErrorOffset, reason,
                   killCalls, timeoutKilled, exitEmitted, errorEmitted, settled>>
    /\ UNCHANGED <<runnableVars, mochaVars, runnerVars, timeoutVars, treeVars, spawnPrintsVars, statsVars, callVars, sessionVars, stdinVars, objVars>>

\* spawnedProcess.stdout.on("data"): a chunk of n bytes arrives
StdoutData(n) ==
    /\ n \in 1..(Len(outData) - outRead)
    /\ LET data == SubSeq(outData, outRead + 1, outRead + n)
           w == bufferWrite(standardOutput, utf8Decode(data), standardOutputOffset)
       IN  /\ outRead' = outRead + n
           /\ standardOutput' = w.buf
           /\ standardOutputOffset' = standardOutputOffset + w.written
           /\ IF w.written # Len(data)
                THEN /\ reason' = "standard_output_exceeded"
                     /\ spawnedProcess' \in killOutcomes(spawnedProcess, "SIGKILL")
                     /\ killCalls' = killCalls + 1
                ELSE UNCHANGED <<reason, spawnedProcess, killCalls>>
    /\ UNCHANGED <<options, outData, errData, errRead, standardError, standardErrorOffset,
                   timeoutKilled, exitEmitted, errorEmitted, settled>>
    /\ UNCHANGED <<runnableVars, mochaVars, runnerVars, timeoutVars, treeVars, spawnPrintsVars, statsVars, callVars, sessionVars, stdinVars, objVars>>

\* spawnedProcess.stderr.on("data"): a chunk of n bytes arrives
StderrData(n) ==
    /\ n \in 1..(Len(errData) - errRead)
    /\ LET data == SubSeq(errData, errRead + 1, errRead + n)
           w == bufferWrite(standardError, utf8Decode(data), standardErrorOffset)
       IN  /\ errRead' = errRead + n
           /\ standardError' = w.buf
           /\ standardErrorOffset' = standardErrorOffset + w.written
           /\ IF w.written # Len(data)
                THEN /\ reason' = "standard_error_exceeded"
                     /\ spawnedProcess' \in killOutcomes(spawnedProcess, "SIGKILL")
                     /\ killCalls' = killCalls + 1
                ELSE UNCHANGED <<reason, spawnedProcess, killCalls>>
    /\ UNCHANGED <<options, outData, outRead, errData, standardOutput, standardOutputOffset,
                   timeoutKilled, exitEmitted, errorEmitted, settled>>
    /\ UNCHANGED <<runnableVars, mochaVars, runnerVars, timeoutVars, treeVars, spawnPrintsVars, statsVars, callVars, sessionVars, stdinVars, objVars>>

\* the timeout of the spawn options elapses while the child runs: the
\* child is sent killSignal
TimeoutElapses ==
    /\ options.timeout > 0
    /\ spawnedProcess.state = "running"
    /\ ~timeoutKilled
    /\ spawnedProcess' \in killOutcomes(spawnedProcess, killSignal)
    /\ timeoutKilled' = TRUE
    /\ UNCHANGED <<options, outData, outRead, errData, errRead, standardOutput,
                   standardOutputOffset, standardError, standardErrorOffset, reason,
                   killCalls, exitEmitted, errorEmitted, settled>>
    /\ UNCHANGED <<runnableVars, mochaVars, runnerVars, timeoutVars, treeVars, spawnPrintsVars, statsVars, callVars, sessionVars, stdinVars, objVars>>

\* spawnedProcess.on("exit") of a child that has ended
ExitEvent ==
    /\ spawnedProcess.state \in {"exited", "killed"}
    /\ ~exitEmitted
    /\ exitEmitted' = TRUE
    /\ settled' = settle(settled, "resolved",
                     [exitCode |-> spawnedProcess.exitCode,
                      standardOutput |-> bufferToString(standardOutput, standardOutputOffset),
                      standardError |-> bufferToString(standardError, standardErrorOffset),
                      reason |-> reason,
                      signal |-> spawnedProcess.signalCode])
    /\ UNCHANGED <<options, spawnedProcess, outData, outRead, errData, errRead,
                   standardOutput, standardOutputOffset, standardError,
                   standardErrorOffset, reason, killCalls, timeoutKilled, errorEmitted>>
    /\ UNCHANGED <<runnableVars, mochaVars, runnerVars, timeoutVars, treeVars, spawnPrintsVars, statsVars, callVars, sessionVars, stdinVars, objVars>>

\* spawnedProcess.on("error"): the child could not be spawned
ErrorEvent ==
    /\ spawnedProcess.state = "failed"
    /\ ~errorEmitted
    /\ errorEmitted' = TRUE
    /\ settled' = settle(settled, "rejected", [NoValue EXCEPT !.reason = "spawn error"])
    /\ UNCHANGED <<options, spawnedProcess, outData, outRead, errData, errRead,
                   standardOutput, standardOutputOffset, standardError,
                   standardErrorOffset, reason, killCalls, timeoutKilled, exitEmitted>>
    /\ UNCHANGED <<runnableVars, mochaVars, runnerVars, timeoutVars, treeVars, spawnPrintsVars, statsVars, callVars, sessionVars, stdinVars, objVars>>

\* spawnedProcess.on("exit") after the "error" event: it may or may not fire
ExitAfterError ==
    /\ spawnedProcess.state = "failed"
    /\ errorEmitted
    /\ ~exitEmitted
    /\ exitEmitted' = TRUE
    /\ settled' = settle(settled, "resolved",
                     [exitCode |-> spawnedProcess.exitCode,
                      standardOutput |-> bufferToString(standardOutput, standardOutputOffset),
                      standardError |-> bufferToString(standardError, standardErrorOffset),
                      reason |-> reason,
                      signal |-> spawnedProcess.signalCode])
    /\ UNCHANGED <<options, spawnedProcess, outData, outRead, errData, errRead,
                   standardOutput, standardOutputOffset, standardError,
                   standardErrorOffset, reason, killCalls, timeoutKilled, errorEmitted>>
    /\ UNCHANGED <<runnableVars, mochaVars, runnerVars, timeoutVars, treeVars, spawnPrintsVars, statsVars, callVars, sessionVars, stdinVars, objVars>>

ExecNext ==
    \/ \E b \in ChildBytes : ChildWritesOut(b)
    \/ \E b \in ChildBytes : ChildWritesErr(b)
    \/ \E c \in ExitCodes : ChildExits(c)
    \/ \E n \in 1..MaxBytes : StdoutData(n)
    \/ \E n \in 1..MaxBytes : StderrData(n)
    \/ TimeoutElapses
    \/ ExitEvent
    \/ ErrorEvent
    \/ ExitAfterError

(***************************************************************************)
(* Mocha instance: its state machine and the runs it has accepted          *)
(***************************************************************************)
\* mochaStates
INIT == "init"
RUNNING == "running"
REFERENCES_CLEANED == "referencesCleaned"
DISPOSED == "disposed"

RunnerIds == 1..MaxRunCalls

\* the constructor
MochaInit ==
    /\ mochaState = INIT
    /\ cleanReferencesAfterRun = TRUE
    /\ previousRunner = 0
    /\ runners = [r \in RunnerIds |-> "none"]
    /\ thrown = "none"

\* a guard that lets a run start after the references were cleaned
guardRunningStateTransition_lax ==
    IF mochaState = RUNNING THEN "alreadyRunning"
    ELSE IF mochaState = DISPOSED THEN "alreadyDisposed"
    ELSE "none"

\* Mocha.guardRunningStateTransition: the error it throws
guardRunningStateTransition ==
    IF mochaState = RUNNING THEN "alreadyRunning"
    ELSE IF mochaState \in {DISPOSED, REFERENCES_CLEANED} THEN "alreadyDisposed"
    ELSE "none"

\* Mocha.run(fn): rejected by the guard, or accepted; an accepted run sets
\* the state and then either fails while loading the files and constructing
\* the runner and the reporter, or starts its runner
MochaRun(r, loads) ==
    /\ runners[r] = "none"
    /\ \A q \in RunnerIds : q < r => runners[q] # "none"
    /\ IF guardRunningStateTransition # "none"
        THEN /\ thrown' = guardRunningStateTransition
             /\ UNCHANGED <<mochaState, runners>>
        ELSE /\ mochaState' = RUNNING
             /\ IF loads
                    THEN /\ runners' = [runners EXCEPT ![r] = "running"]
                         /\ thrown' = "none"
                    ELSE /\ thrown' = "loadError"
                         /\ UNCHANGED runners
    /\ UNCHANGED <<cleanReferencesAfterRun, previousRunner>>
    /\ UNCHANGED <<runnableVars, execVars, runnerVars, timeoutVars, treeVars, spawnPrintsVars, statsVars, callVars, sessionVars, stdinVars, objVars>>

\* the done callback of run: the runner of an accepted run has finished
RunDone(r) ==
    /\ runners[r] = "running"
    /\ runners' = [runners EXCEPT ![r] = "done"]
    /\ previousRunner' = r
    /\ mochaState' = IF cleanReferencesAfterRun THEN REFERENCES_CLEANED ELSE INIT
    /\ UNCHANGED <<cleanReferencesAfterRun, thrown>>
    /\ UNCHANGED <<runnableVars, execVars, runnerVars, timeoutVars, treeVars, spawnPrintsVars, statsVars, callVars, sessionVars, stdinVars, objVars>>

\* Mocha.unloadFiles
UnloadFiles ==
    /\ IF mochaState = DISPOSED
        THEN /\ thrown' = "alreadyDisposed"
             /\ UNCHANGED mochaState
        ELSE /\ mochaState' = INIT
             /\ thrown' = "none"
    /\ UNCHANGED <<cleanReferencesAfterRun, previousRunner, runners>>
    /\ UNCHANGED <<runnableVars, execVars, runnerVars, timeoutVars, treeVars, spawnPrintsVars, statsVars, callVars, sessionVars, stdinVars, objVars>>

\* Mocha.dispose
Dispose ==
    /\ IF mochaState = RUNNING
        THEN /\ thrown' = "disposeWhileRunning"
             /\ UNCHANGED mochaState
       ELSE IF mochaState = DISPOSED
        THEN /\ thrown' = "alreadyDisposed"
             /\ UNCHANGED mochaState
       ELSE /\ mochaState' = DISPOSED
            /\ thrown' = "none"
    /\ UNCHANGED <<cleanReferencesAfterRun, previousRunner, runners>>
    /\ UNCHANGED <<runnableVars, execVars, runnerVars, timeoutVars, treeVars, spawnPrintsVars, statsVars, callVars, sessionVars, stdinVars, objVars>>

\* Mocha.cleanReferencesAfterRun(flag)
CleanReferencesAfterRun(flag) ==
    /\ cleanReferencesAfterRun # flag
    /\ cleanReferencesAfterRun' = flag
    /\ UNCHANGED <<mochaState, previousRunner, runners, thrown>>
    /\ UNCHANGED <<runnableVars, execVars, runnerVars, timeoutVars, treeVars, spawnPrintsVars, statsVars, callVars, sessionVars, stdinVars, objVars>>

MochaNext ==
    \/ \E r \in RunnerIds, loads \in BOOLEAN : MochaRun(r, loads)
    \/ \E r \in RunnerIds : RunDone(r)
    \/ UnloadFiles
    \/ Dispose
    \/ \E flag \in BOOLEAN : CleanReferencesAfterRun(flag)

(***************************************************************************)
(* Runner: one run over a suite tree.  The runner and the Suite class are  *)
(* modelled from the specification of the execution engine (4.2); the      *)
(* runnables it drives complete through done() of Runnable.run, a retried  *)
(* test is the clone of the failed one, and hooks are declared through the *)
(* interface functions.  The run has no text filter, no exclusive          *)
(* selection and no bail.                                                  *)
(***************************************************************************)
\* the suite tree: suite 1 is the root, the parent of s is s \div 2, and
\* each suite declares one test and one hook of every phase
Suites == 1..MaxSuites

parentOf(s) == s \div 2

childrenOf(s) == SelectSeq(<<2 * s, 2 * s + 1>>, LAMBDA c : c \in Suites)

\* the suites from the root down to s
RECURSIVE ancestors(_)
ancestors(s) == IF s = 1 THEN <<1>> ELSE Append(ancestors(parentOf(s)), s)

\* common.suite.create: the stack of suites while the body of s declares,
\* the suite being declared first (suites.unshift)
SuiteStack(s) ==
    LET a == ancestors(s)
    IN  [i \in 1..Len(a) |-> a[Len(a) + 1 - i]]

\* a hook declaration that goes to the root suite, the bottom of the stack
hookOwner_root(stack) == stack[Len(stack)]

\* common.beforeEach / common.afterEach: the suite that gets the hook
\* declared while the stack of suites is `stack` (suites[0])
hookOwner(stack) == stack[1]

\* the beforeEach (afterEach) hooks of suite x in declaration order, each
\* named by the suite whose body declared it
hooksOf(x) ==
    SelectSeq([d \in 1..MaxSuites |-> d], LAMBDA d : hookOwner(SuiteStack(d)) = x)

\* the hooks of the suites of `path` from its element i on
RECURSIVE hookChain(_, _)
hookChain(path, i) ==
    IF i > Len(path) THEN <<>> ELSE hooksOf(path[i]) \o hookChain(path, i + 1)

\* the inherited beforeEach chain of the test of s: root first
beforeEachChain(s) == hookChain(ancestors(s), 1)

\* the afterEach chain of the test of s for its k outermost suites: from
\* the innermost of them back to the root
afterEachChain(s, k) == hookChain(SuiteStack(ancestors(s)[k]), 1)

\* the position in ancestors(s) of the suite owning the i-th beforeEach hook
ownerIndex(s, i) ==
    LET x == hookOwner(SuiteStack(beforeEachChain(s)[i]))
    IN  CHOOSE k \in 1..Len(ancestors(s)) : ancestors(s)[k] = x

\* a position of the traversal: the runnable that is invoked there
Pos(ph, s, i, k) == [ph |-> ph, s |-> s, i |-> i, k |-> k]
IdlePos == Pos("idle", 0, 0, 0)
EndPos == Pos("end", 0, 0, 0)

\* the runnable invoked at a position: its phase and the suite that declared it
runnableAt(pos) ==
    CASE pos.ph = "beforeEach" -> [ph |-> "beforeEach", s |-> beforeEachChain(pos.s)[pos.i]]
      [] pos.ph = "afterEach" -> [ph |-> "afterEach", s |-> afterEachChain(pos.s, pos.k)[pos.i]]
      [] OTHER -> [ph |-> pos.ph, s |-> pos.s]

\* step 3a: the first hook of the beforeEach chain, or the body
BeforeEachFrom(s) ==
    IF beforeEachChain(s) # <<>> THEN Pos("beforeEach", s, 1, 0) ELSE Pos("test", s, 0, 0)

\* step 4 and 5: after the test of s its child suites, then its afterAll
AfterTest(s) ==
    IF childrenOf(s) # <<>> THEN Pos("beforeAll", childrenOf(s)[1], 0, 0)
                           ELSE Pos("afterAll", s, 0, 0)

\* step 3e: the afterEach chain of the k outermost suites, then step 4
AfterEachFrom(s, k) ==
    IF k > 0 /\ afterEachChain(s, k) # <<>> THEN Pos("afterEach", s, 1, k) ELSE AfterTest(s)

\* after the afterAll of s: the next sibling, or the afterAll of the parent
AfterSuite(s) ==
    IF s = 1 THEN EndPos
    ELSE IF s = 2 * parentOf(s) /\ s + 1 \in Suites THEN Pos("beforeAll", s + 1, 0, 0)
    ELSE Pos("afterAll", parentOf(s), 0, 0)

\* Test constructor and Test.reset: a test with a body, with the retries
\* its suite hands it
newTest(n) == [currentRetry |-> 0, retries |-> n, pending |-> FALSE]

\* a clone that starts with the retry count of a new test
clone_fresh(test) == newTest(test.retries)

\* Test.clone
clone(test) == [newTest(test.retries) EXCEPT !.currentRetry = test.currentRetry]

Bump(n, cap) == IF n < cap THEN n + 1 ELSE n

\* what the runner holds before the completion of a runnable is handled
RunnerNow ==
    [next |-> EndPos, fresh |-> FALSE, test |-> rTest, state |-> rState, err |-> rErr,
     finalRetry |-> rFinalRetry, bodyFails |-> rBodyFails,
     hookFailures |-> rHookFailures, testFailures |-> rTestFailures]

\* the traversal algorithm: the runnable invoked at pos has completed with
\* err (skipped: by the skip signal); what the runner holds afterwards and
\* where it goes on
RunnerStep(pos, err, skipped) ==
    LET s == pos.s
        now == RunnerNow
        full == Len(ancestors(s))
    IN  CASE pos.ph = "beforeAll" ->
                 IF err = NoErr
                     THEN [now EXCEPT !.next = BeforeEachFrom(s), !.fresh = TRUE,
                                      !.test = newTest(maxRetries)]
                     ELSE [now EXCEPT !.next = Pos("afterAll", s, 0, 0),
                                      !.hookFailures[s] = Bump(@, 2)]
          [] pos.ph = "beforeEach" ->
                 IF err = NoErr
                     THEN [now EXCEPT !.next =
                              IF pos.i < Len(beforeEachChain(s))
                                  THEN Pos("beforeEach", s, pos.i + 1, 0)
                                  ELSE Pos("test", s, 0, 0)]
                     ELSE [now EXCEPT !.next = AfterEachFrom(s, ownerIndex(s, pos.i) - 1),
                                      !.state[s] = "failed",
                                      !.err[s] = "hook",
                                      !.finalRetry[s] = now.test.currentRetry,
                                      !.testFailures[s] = Bump(@, 2)]
          [] pos.ph = "test" ->
                 IF skipped
                     THEN [now EXCEPT !.next = AfterEachFrom(s, full),
                                      !.test.pending = TRUE,
                                      !.state[s] = "pending",
                                      !.finalRetry[s] = now.test.currentRetry]
                 ELSE IF err = NoErr
                     THEN [now EXCEPT !.next = AfterEachFrom(s, full),
                                      !.state[s] = "passed",
                                      !.finalRetry[s] = now.test.currentRetry]
                 ELSE IF now.test.currentRetry < now.test.retries
                     THEN [now EXCEPT !.next = BeforeEachFrom(s), !.fresh = TRUE,
                                      !.bodyFails[s] = Bump(@, MaxRetries + 2),
                                      !.test = clone([now.test EXCEPT
                                                        !.currentRetry = @ + 1])]
                 ELSE [now EXCEPT !.next = AfterEachFrom(s, full),
                                  !.bodyFails[s] = Bump(@, MaxRetries + 2),
                                  !.state[s] = "failed",
                                  !.err[s] = "body",
                                  !.finalRetry[s] = now.test.currentRetry,
                                  !.testFailures[s] = Bump(@, 2)]
          [] pos.ph = "afterEach" ->
                 [now EXCEPT !.next =
                     IF pos.i < Len(afterEachChain(s, pos.k))
                         THEN Pos("afterEach", s, pos.i + 1, pos.k)
                         ELSE AfterTest(s)]
          [] OTHER -> [now EXCEPT !.next = AfterSuite(s)]

\* the runner invokes the runnable at position next: run(fn) is called, the
\* log of the attempt gets the runnable, a body counts as an attempt
Invoke(next, log) ==
    /\ rPos' = next
    /\ rFin' = (next = EndPos)
    /\ rLog' = IF next.ph \in {"beforeEach", "test", "afterEach"}
                   THEN Append(log, runnableAt(next)) ELSE log
    /\ rAttempts' = IF next.ph = "test"
                        THEN [rAttempts EXCEPT ![next.s] = Bump(@, MaxRetries + 2)]
                        ELSE rAttempts
    /\ rAfterAll' = IF next.ph = "afterAll" THEN rAfterAll \cup {next.s} ELSE rAfterAll

\* Runner.run: the traversal starts with the beforeAll hook of the root
RunnerStart ==
    /\ rPos = IdlePos
    /\ Invoke(Pos("beforeAll", 1, 0, 0), <<>>)
    /\ rExecuting' = 1
    /\ UNCHANGED <<maxRetries, rPrevPos, rPrevFin, rSignals, rTest, rState, rErr, rFinalRetry,
                   rBodyFails, rHookFailures, rTestFailures>>
    /\ UNCHANGED <<runnableVars, execVars, mochaVars, timeoutVars, treeVars, spawnPrintsVars, statsVars, callVars, sessionVars, stdinVars, objVars>>

Outcomes == {"pass", "fail", "skip"}

\* the body of a runnable that was invoked gives a completion signal: the
\* one invoked last (cur) or the one before it (prev).  done() of its
\* invocation decides whether the completion callback is called, and the
\* callback is the runner's continuation of the position of that runnable.
Signal(which, outcome) ==
    LET pos == IF which = "cur" THEN rPos ELSE rPrevPos
        fin == IF which = "cur" THEN rFin ELSE rPrevFin
        err == IF outcome = "fail" THEN Err("Error") ELSE NoErr
        d == doneIn(fin, <<>>, <<>>, 0, err, FALSE)
    IN  /\ pos.ph \notin {"idle", "end"}
        /\ outcome = "skip" => pos.ph = "test"
        /\ fin => rSignals < MaxDoneCalls
        /\ rSignals' = IF fin THEN rSignals + 1 ELSE rSignals
        /\ IF d.fnCalls = <<>>
            THEN UNCHANGED <<rPos, rFin, rPrevPos, rPrevFin, rExecuting, rTest, rAttempts,
                             rState, rErr, rFinalRetry, rBodyFails, rHookFailures,
                             rTestFailures, rAfterAll, rLog>>
            ELSE LET r == RunnerStep(pos, d.fnCalls[1], outcome = "skip")
                 IN  /\ Invoke(r.next, IF r.fresh THEN <<>> ELSE rLog)
                     /\ rPrevPos' = rPos
                     /\ rPrevFin' = IF which = "cur" THEN d.finished ELSE rFin
                     /\ rExecuting' = Min(rExecuting - (IF fin THEN 0 ELSE 1)
                                            + (IF r.next = EndPos THEN 0 ELSE 1), 3)
                     /\ rTest' = r.test
                     /\ rState' = r.state
                     /\ rErr' = r.err
                     /\ rFinalRetry' = r.finalRetry
                     /\ rBodyFails' = r.bodyFails
                     /\ rHookFailures' = r.hookFailures
                     /\ rTestFailures' = r.testFailures
        /\ UNCHANGED maxRetries
        /\ UNCHANGED <<runnableVars, execVars, mochaVars, timeoutVars, treeVars, spawnPrintsVars, statsVars, callVars, sessionVars, stdinVars, objVars>>

\* a runner over the tree; every test has the retries of its suite
\* (Runnable constructor: -1)
RunnerInit ==
    /\ maxRetries \in {-1} \cup (0..MaxRetries)
    /\ rPos = IdlePos /\ rFin = TRUE
    /\ rPrevPos = IdlePos /\ rPrevFin = TRUE
    /\ rExecuting = 0
    /\ rSignals = 0
    /\ rTest = newTest(maxRetries)
    /\ rAttempts = [s \in Suites |-> 0]
    /\ rState = [s \in Suites |-> "unset"]
    /\ rErr = [s \in Suites |-> "none"]
    /\ rFinalRetry = [s \in Suites |-> 0]
    /\ rBodyFails = [s \in Suites |-> 0]
    /\ rHookFailures = [s \in Suites |-> 0]
    /\ rTestFailures = [s \in Suites |-> 0]
    /\ rAfterAll = {}
    /\ rLog = <<>>

RunnerNext ==
    \/ RunnerStart
    \/ \E which \in {"cur", "prev"}, outcome \in Outcomes : Signal(which, outcome)

(***************************************************************************)
(* Runnable.timeout(ms) on numbers of any size                             *)
(***************************************************************************)
\* an integral JavaScript number: one of at most 2^31 - 1 is its value in
\* base with over = 0, a larger one is base = INT_MAX and the excess in over
number(base, over) == [base |-> base, over |-> over]

\* x < y on numbers
lessThan(x, y) == x.base < y.base \/ (x.base = y.base /\ x.over < y.over)

MathMax(x, y) == IF lessThan(x, y) THEN y ELSE x
MathMin(x, y) == IF lessThan(y, x) THEN y ELSE x

\* a clamp that has no upper end
clampNumber_lower(value, range) == MathMax(value, range[1])

\* utils.clamp(value, range)
clampNumber(value, range) == MathMin(MathMax(value, range[1]), range[2])

\* Runnable.timeout(ms): the value it stores in this._timeout
timeout(ms) ==
    LET range == <<number(0, 0), number(INT_MAX, 0)>>
        clamped == clampNumber(ms, range)
    IN  IF clamped = range[1] \/ clamped = range[2] THEN number(0, 0) ELSE clamped

\* the numbers passed to timeout(ms): around 0, below and at 2^31 - 1, above it
Numbers ==
    {number(n, 0) : n \in (0 - MaxOffset)..MaxOffset}
        \cup {number(INT_MAX - k, 0) : k \in 0..MaxOffset}
        \cup {number(INT_MAX, k) : k \in 1..MaxOffset}

\* the Runnable after its constructor
TimeoutInit ==
    /\ tCalled = FALSE
    /\ tArg = number(0, 0)
    /\ tTimeout = number(DefaultTimeout, 0)

\* Runnable.timeout(ms) of a Runnable that has no timer
SetTimeout(ms) ==
    /\ tCalled' = TRUE
    /\ tArg' = ms
    /\ tTimeout' = timeout(ms)
    /\ UNCHANGED <<runnableVars, execVars, mochaVars, runnerVars, treeVars, spawnPrintsVars, statsVars, callVars, sessionVars, stdinVars, objVars>>

TimeoutNext == \E ms \in Numbers : SetTimeout(ms)

(***************************************************************************)
(* The BDD interface: declarations build the suite tree; Test objects      *)
(***************************************************************************)
Titles == {"a", "b"}

\* the root suite the interface is created with
RootSuite == [parent |-> 0, title |-> "", pending |-> FALSE, only |-> FALSE]

\* Suite.fullTitle: the titles from below the root down to the suite,
\* joined by a space; a sequence of characters
RECURSIVE fullTitle(_, _)
fullTitle(objs, s) ==
    IF objs[s].parent = 0
        THEN <<>>
        ELSE LET above == fullTitle(objs, objs[s].parent)
             IN  IF above = <<>> THEN <<objs[s].title>>
                                 ELSE above \o <<" ", objs[s].title>>

\* Suite.isPending: the suite or one of its ancestors is pending
RECURSIVE suiteIsPending(_, _)
suiteIsPending(objs, s) ==
    objs[s].pending \/ (objs[s].parent # 0 /\ suiteIsPending(objs, objs[s].parent))

\* RegExp.test of a one-letter pattern
grepTest(pattern, title) == \E i \in 1..Len(title) : title[i] = pattern

\* shouldBeTested(suite) of common.ts
shouldBeTested(objs, s) ==
    \/ mochaOptions.grep = "none"
    \/ /\ mochaOptions.grep # "none"
       /\ grepTest(mochaOptions.grep, fullTitle(objs, s))
       /\ ~mochaOptions.invert

\* common.suite.create(options): the tree, the stack and the error raised.
\* A suite that has a callback stays on the stack while the callback runs.
\* Here options.fn is "function", "undefined" or "false", and stack is the
\* suite stack at the call.
createOn(stack, opts) ==
    LET id == Len(suiteObjs) + 1
        objs == Append(suiteObjs, [parent |-> stack[1], title |-> opts.title,
                                   pending |-> opts.pending, only |-> opts.isOnly])
        pushed == <<id>> \o stack
    IN  IF opts.pending /\ mochaOptions.forbidPending /\ shouldBeTested(objs, id)
            THEN [suiteObjs |-> objs, suites |-> pushed, thrown |-> "Unsupported"]
        ELSE IF opts.fn = "function"
            THEN [suiteObjs |-> objs, suites |-> pushed, thrown |-> "none"]
        ELSE IF opts.fn = "undefined" /\ ~opts.pending
            THEN [suiteObjs |-> objs, suites |-> pushed, thrown |-> "MissingArgument"]
        ELSE IF opts.pending
            THEN [suiteObjs |-> objs, suites |-> stack, thrown |-> "none"]
        ELSE [suiteObjs |-> objs, suites |-> pushed, thrown |-> "none"]

\* common.suite.create(options) of the BDD interface: fn tells whether a
\* callback was given
create(opts) ==
    createOn(suites, [opts EXCEPT !.fn = IF @ THEN "function" ELSE "undefined"])

\* common.suite.only without its forbidOnly test
suiteOnly_unguarded(opts) == create([opts EXCEPT !.isOnly = TRUE])

\* common.suite.only(opts)
suiteOnly(opts) ==
    IF mochaOptions.forbidOnly
        THEN [suiteObjs |-> suiteObjs, suites |-> suites, thrown |-> "ForbiddenExclusivity"]
        ELSE create([opts EXCEPT !.isOnly = TRUE])

\* common.suite.skip(opts)
suiteSkip(opts) == create([opts EXCEPT !.pending = TRUE])

\* Runnable.reset that leaves this.err in place
RunnableReset_keepErr(r) ==
    [r EXCEPT !.timedOut = FALSE, !.currentRetry = 0, !.pending = FALSE,
              !.state = "unset"]

\* Runnable.reset; a deleted property reads "unset"
RunnableReset(r) ==
    LET cleared == [r EXCEPT !.timedOut = FALSE, !.currentRetry = 0, !.pending = FALSE,
                             !.state = "unset"]
    IN  IF "err" \in DOMAIN r THEN [cleared EXCEPT !.err = "unset"] ELSE cleared

\* Test.reset that only does what Runnable.reset does
TestReset_base(t) == RunnableReset(t)

\* Test.reset
TestReset(t) == [RunnableReset(t) EXCEPT !.pending = ~t.fn]

\* new Test(title, description, fn) added to suite s; fn tells whether a
\* body was given
Test(s, fn) ==
    TestReset([parent |-> s, fn |-> fn, only |-> FALSE, state |-> "unset",
               timedOut |-> FALSE, currentRetry |-> 0, pending |-> FALSE])

\* context.it(title, fn): the test it creates
it(fn) == Test(suites[1], IF suiteIsPending(suiteObjs, suites[1]) THEN FALSE ELSE fn)

Declarations == Len(suiteObjs) - 1 + Len(tests)

Declaring == ~loaded /\ declThrown = "none" /\ Declarations < MaxDecls

TreeInit ==
    /\ mochaOptions \in [forbidOnly : BOOLEAN, forbidPending : BOOLEAN,
                         grep : {"none"} \cup Titles, invert : BOOLEAN]
    /\ suites = <<1>>
    /\ suiteObjs = <<RootSuite>>
    /\ tests = <<>>
    /\ declThrown = "none"
    /\ loaded = FALSE
    /\ resets = 0

ApplyCreate(c) ==
    /\ suiteObjs' = c.suiteObjs
    /\ suites' = c.suites
    /\ declThrown' = c.thrown
    /\ UNCHANGED <<mochaOptions, tests, loaded, resets>>
    /\ UNCHANGED <<runnableVars, execVars, mochaVars, runnerVars, timeoutVars, spawnPrintsVars, statsVars, callVars, sessionVars, stdinVars, objVars>>

\* describe(title, fn)
Describe(title, fn) ==
    /\ Declaring
    /\ ApplyCreate(create([title |-> title, fn |-> fn, pending |-> FALSE,
                           isOnly |-> FALSE]))

\* describe.skip(title, fn)
DescribeSkip(title, fn) ==
    /\ Declaring
    /\ ApplyCreate(suiteSkip([title |-> title, fn |-> fn, pending |-> FALSE,
                              isOnly |-> FALSE]))

\* describe.only(title, fn)
DescribeOnly(title, fn) ==
    /\ Declaring
    /\ ApplyCreate(suiteOnly([title |-> title, fn |-> fn, pending |-> FALSE,
                              isOnly |-> FALSE]))

\* the callback of the suite on top of the stack returns: suites.shift()
SuiteFnReturns ==
    /\ ~loaded /\ declThrown = "none"
    /\ Len(suites) > 1
    /\ suites' = Tail(suites)
    /\ UNCHANGED <<mochaOptions, suiteObjs, tests, declThrown, loaded, resets>>
    /\ UNCHANGED <<runnableVars, execVars, mochaVars, runnerVars, timeoutVars, spawnPrintsVars, statsVars, callVars, sessionVars, stdinVars, objVars>>

\* it(title, fn), and it.skip(title) which is it(title)
It(fn) ==
    /\ Declaring
    /\ tests' = Append(tests, it(fn))
    /\ UNCHANGED <<mochaOptions, suites, suiteObjs, declThrown, loaded, resets>>
    /\ UNCHANGED <<runnableVars, execVars, mochaVars, runnerVars, timeoutVars, spawnPrintsVars, statsVars, callVars, sessionVars, stdinVars, objVars>>

\* it.only(title, fn): common.test.only(mocha, it(title, fn))
ItOnly(fn) ==
    /\ Declaring
    /\ IF mochaOptions.forbidOnly
        THEN /\ tests' = Append(tests, it(fn))
             /\ declThrown' = "ForbiddenExclusivity"
        ELSE /\ tests' = Append(tests, [it(fn) EXCEPT !.only = TRUE])
             /\ UNCHANGED declThrown
    /\ UNCHANGED <<mochaOptions, suites, suiteObjs, loaded, resets>>
    /\ UNCHANGED <<runnableVars, execVars, mochaVars, runnerVars, timeoutVars, spawnPrintsVars, statsVars, callVars, sessionVars, stdinVars, objVars>>

\* Mocha.run: loadFiles returned, the run gets the tree
FilesLoaded ==
    /\ ~loaded /\ declThrown = "none"
    /\ Len(suites) = 1
    /\ loaded' = TRUE
    /\ UNCHANGED <<mochaOptions, suites, suiteObjs, tests, declThrown, resets>>
    /\ UNCHANGED <<runnableVars, execVars, mochaVars, runnerVars, timeoutVars, spawnPrintsVars, statsVars, callVars, sessionVars, stdinVars, objVars>>

\* the body of test i calls this.skip()
TestSkips(i) ==
    /\ loaded
    /\ tests[i].fn /\ ~tests[i].pending
    /\ tests' = [tests EXCEPT ![i].pending = TRUE]
    /\ UNCHANGED <<mochaOptions, suites, suiteObjs, declThrown, loaded, resets>>
    /\ UNCHANGED <<runnableVars, execVars, mochaVars, runnerVars, timeoutVars, spawnPrintsVars, statsVars, callVars, sessionVars, stdinVars, objVars>>

\* the timer of test i expires
TestTimesOut(i) ==
    /\ loaded
    /\ tests[i].fn /\ ~tests[i].pending /\ ~tests[i].timedOut
    /\ tests' = [tests EXCEPT ![i].timedOut = TRUE]
    /\ UNCHANGED <<mochaOptions, suites, suiteObjs, declThrown, loaded, resets>>
    /\ UNCHANGED <<runnableVars, execVars, mochaVars, runnerVars, timeoutVars, spawnPrintsVars, statsVars, callVars, sessionVars, stdinVars, objVars>>

\* test.reset() of test i, for a next run
TestIsReset(i) ==
    /\ loaded
    /\ resets < MaxResets
    /\ resets' = resets + 1
    /\ tests' = [tests EXCEPT ![i] = TestReset(tests[i])]
    /\ UNCHANGED <<mochaOptions, suites, suiteObjs, declThrown, loaded>>
    /\ UNCHANGED <<runnableVars, execVars, mochaVars, runnerVars, timeoutVars, spawnPrintsVars, statsVars, callVars, sessionVars, stdinVars, objVars>>

TreeNext ==
    \/ \E title \in Titles, fn \in BOOLEAN : Describe(title, fn)
    \/ \E title \in Titles, fn \in BOOLEAN : DescribeSkip(title, fn)
    \/ \E title \in Titles, fn \in BOOLEAN : DescribeOnly(title, fn)
    \/ SuiteFnReturns
    \/ \E fn \in BOOLEAN : It(fn)
    \/ \E fn \in BOOLEAN : ItOnly(fn)
    \/ FilesLoaded
    \/ \E i \in 1..Len(tests) : TestSkips(i)
    \/ \E i \in 1..Len(tests) : TestTimesOut(i)
    \/ \E i \in 1..Len(tests) : TestIsReset(i)

(***************************************************************************)
(* The QUnit-style interface, over the same tree                           *)
(***************************************************************************)
MaxQDecls == 3

QDeclaring == ~loaded /\ declThrown = "none" /\ Declarations < MaxQDecls

\* what the second argument of context.test can be
Descriptions == {"text", "function", "undefined"}

qunitShift_never(stack) == stack

\* if (suites.length > 1) { suites.shift(); }
qunitShift(stack) == IF Len(stack) > 1 THEN Tail(stack) ELSE stack

\* context.test(title, description, fn): the test it adds to suites[0]
contextTest(description, fn) ==
    LET t == Test(suites[1], fn)
    IN  [k \in DOMAIN t \cup {"description"} |->
            IF k = "description" THEN description ELSE t[k]]

\* context.suite(options); options may carry pending
QSuite(title, p) ==
    /\ QDeclaring
    /\ ApplyCreate(createOn(qunitShift(suites),
                            [title |-> title, fn |-> "false", pending |-> p,
                             isOnly |-> FALSE]))

\* context.suite.only(title)
QSuiteOnly(title) ==
    /\ QDeclaring
    /\ ApplyCreate(IF mochaOptions.forbidOnly
                       THEN [suiteObjs |-> suiteObjs, suites |-> qunitShift(suites),
                             thrown |-> "ForbiddenExclusivity"]
                       ELSE createOn(qunitShift(suites),
                                     [title |-> title, fn |-> "false", pending |-> FALSE,
                                      isOnly |-> TRUE]))

\* test(title, description, fn)
QTest(description, fn) ==
    /\ QDeclaring
    /\ tests' = Append(tests, contextTest(description, fn))
    /\ UNCHANGED <<mochaOptions, suites, suiteObjs, declThrown, loaded, resets>>
    /\ UNCHANGED <<runnableVars, execVars, mochaVars, runnerVars, timeoutVars, spawnPrintsVars, statsVars, callVars, sessionVars, stdinVars, objVars>>

\* test.only(title, fn): common.test.only(mocha, context.test(title, fn)),
\* where fn is the second argument of context.test and the third is missing
QTestOnly(fn) ==
    /\ QDeclaring
    /\ LET test == contextTest(IF fn THEN "function" ELSE "undefined", FALSE)
       IN  IF mochaOptions.forbidOnly
           THEN /\ tests' = Append(tests, test)
                /\ declThrown' = "ForbiddenExclusivity"
           ELSE /\ tests' = Append(tests, [test EXCEPT !.only = TRUE])
                /\ UNCHANGED declThrown
    /\ UNCHANGED <<mochaOptions, suites, suiteObjs, loaded, resets>>
    /\ UNCHANGED <<runnableVars, execVars, mochaVars, runnerVars, timeoutVars, spawnPrintsVars, statsVars, callVars, sessionVars, stdinVars, objVars>>

\* test.skip(title): context.test(title)
QTestSkip ==
    /\ QDeclaring
    /\ tests' = Append(tests, contextTest("undefined", FALSE))
    /\ UNCHANGED <<mochaOptions, suites, suiteObjs, declThrown, loaded, resets>>
    /\ UNCHANGED <<runnableVars, execVars, mochaVars, runnerVars, timeoutVars, spawnPrintsVars, statsVars, callVars, sessionVars, stdinVars, objVars>>

QUnitNext ==
    \/ \E title \in Titles, p \in BOOLEAN : QSuite(title, p)
    \/ \E title \in Titles : QSuiteOnly(title)
    \/ \E description \in Descriptions, fn \in BOOLEAN : QTest(description, fn)
    \/ \E fn \in BOOLEAN : QTestOnly(fn)
    \/ QTestSkip

(***************************************************************************)
(* spawnPrints: the assertion over one execute call                        *)
(***************************************************************************)
\* the strings of at most n characters over a two-letter alphabet
RECURSIVE TextsUpTo(_)
TextsUpTo(n) ==
    IF n = 0 THEN {<<>>}
             ELSE LET shorter == TextsUpTo(n - 1)
                  IN  shorter \cup {Append(t, c) : t \in shorter, c \in {"a", "b"}}

Texts == TextsUpTo(MaxText)

\* strictEqual(actual, expected, message): what it throws
strictEqual(actual, expected) ==
    IF actual # expected THEN "AssertionError" ELSE "none"

\* spawnPrints after its await that looks at the standard output only
afterAwait_outputOnly(execution, expectedOutput, expectedError) ==
    IF execution.state = "rejected"
        THEN [state |-> "rejected", kind |-> "SpawnError"]
    ELSE IF strictEqual(execution.standardOutput, expectedOutput) # "none"
        THEN [state |-> "rejected", kind |-> "AssertionError"]
    ELSE [state |-> "fulfilled", kind |-> "none"]

\* spawnPrints after its await: the rejection of execute is rethrown, the
\* result goes through the two strictEqual calls
afterAwait(execution, expectedOutput, expectedError) ==
    IF execution.state = "rejected"
        THEN [state |-> "rejected", kind |-> "SpawnError"]
    ELSE IF strictEqual(execution.standardOutput, expectedOutput) # "none"
        THEN [state |-> "rejected",
              kind |-> strictEqual(execution.standardOutput, expectedOutput)]
    ELSE IF strictEqual(execution.standardError, expectedError) # "none"
        THEN [state |-> "rejected",
              kind |-> strictEqual(execution.standardError, expectedError)]
    ELSE [state |-> "fulfilled", kind |-> "none"]

SpawnPrintsInit ==
    /\ spCommand \in BOOLEAN
    /\ spExpected \in [output : Texts, error : Texts]
    /\ spExecution = [state |-> "none", standardOutput |-> <<>>, standardError |-> <<>>]
    /\ spOutcome = [state |-> "notCalled", kind |-> "none"]

\* spawnPrints(command, input, expectedOutput, expectedError, message) up
\* to its await
SpawnPrintsCalled ==
    /\ spOutcome.state = "notCalled"
    /\ IF ~spCommand
        THEN /\ spOutcome' = [state |-> "rejected", kind |-> "Error"]
             /\ UNCHANGED spExecution
        ELSE /\ spOutcome' = [state |-> "awaiting", kind |-> "none"]
             /\ spExecution' = [spExecution EXCEPT !.state = "pending"]
    /\ UNCHANGED <<spCommand, spExpected>>
    /\ UNCHANGED <<runnableVars, execVars, mochaVars, runnerVars, timeoutVars, treeVars, statsVars, callVars, sessionVars, stdinVars, objVars>>

\* execute resolves with the result of its exit handler
ExecutionResolves(out, err) ==
    /\ spExecution.state = "pending"
    /\ spExecution' = [state |-> "resolved", standardOutput |-> out, standardError |-> err]
    /\ UNCHANGED <<spCommand, spExpected, spOutcome>>
    /\ UNCHANGED <<runnableVars, execVars, mochaVars, runnerVars, timeoutVars, treeVars, statsVars, callVars, sessionVars, stdinVars, objVars>>

\* execute rejects with the error of the child's error event
ExecutionRejects ==
    /\ spExecution.state = "pending"
    /\ spExecution' = [spExecution EXCEPT !.state = "rejected"]
    /\ UNCHANGED <<spCommand, spExpected, spOutcome>>
    /\ UNCHANGED <<runnableVars, execVars, mochaVars, runnerVars, timeoutVars, treeVars, statsVars, callVars, sessionVars, stdinVars, objVars>>

\* spawnPrints resumes after its await
SpawnPrintsResumes ==
    /\ spOutcome.state = "awaiting"
    /\ spExecution.state \in {"resolved", "rejected"}
    /\ spOutcome' = afterAwait(spExecution, spExpected.output, spExpected.error)
    /\ UNCHANGED <<spCommand, spExpected, spExecution>>
    /\ UNCHANGED <<runnableVars, execVars, mochaVars, runnerVars, timeoutVars, treeVars, statsVars, callVars, sessionVars, stdinVars, objVars>>

SpawnPrintsNext ==
    \/ SpawnPrintsCalled
    \/ \E out \in Texts, err \in Texts : ExecutionResolves(out, err)
    \/ ExecutionRejects
    \/ SpawnPrintsResumes

(***************************************************************************)
(* createStatsCollector: the stats of a runner                             *)
(***************************************************************************)
\* a field that was never assigned, and the difference of two dates of
\* which one is undefined
Undefined == -1
NaN == -2

\* the events a runner emits: the seven the collector listens to, the suite
\* event for the root suite and for another suite, and one it does not
\* listen to
Events == {"runBegin", "suiteBeginRoot", "suiteBegin", "testPass", "testFail",
           "testPending", "testEnd", "runEnd", "hookEnd"}

\* the stats object of createStatsCollector
newStats ==
    [suites |-> 0, tests |-> 0, passes |-> 0, pending |-> 0, failures |-> 0,
     start |-> Undefined, end |-> Undefined, duration |-> Undefined]

\* the listeners registered with runner.once
OnceEvents == {"runBegin", "runEnd"}

\* listeners that count the root suite too
collect_rootCounted(st, once, event, time) ==
    CASE event = "runBegin" /\ event \in once -> [st EXCEPT !.start = time]
      [] event \in {"suiteBegin", "suiteBeginRoot"} -> [st EXCEPT !.suites = @ + 1]
      [] event = "testPass" -> [st EXCEPT !.passes = @ + 1]
      [] event = "testFail" -> [st EXCEPT !.failures = @ + 1]
      [] event = "testPending" -> [st EXCEPT !.pending = @ + 1]
      [] event = "testEnd" -> [st EXCEPT !.tests = @ + 1]
      [] event = "runEnd" /\ event \in once ->
            [st EXCEPT !.end = time,
                       !.duration = IF st.start = Undefined THEN NaN ELSE time - st.start]
      [] OTHER -> st

\* the listeners of createStatsCollector: the stats after the runner
\* emitted event at the given time, once being the once-listeners left
collect(st, once, event, time) ==
    CASE event = "runBegin" /\ event \in once -> [st EXCEPT !.start = time]
      [] event = "suiteBegin" -> [st EXCEPT !.suites = @ + 1]
      [] event = "testPass" -> [st EXCEPT !.passes = @ + 1]
      [] event = "testFail" -> [st EXCEPT !.failures = @ + 1]
      [] event = "testPending" -> [st EXCEPT !.pending = @ + 1]
      [] event = "testEnd" -> [st EXCEPT !.tests = @ + 1]
      [] event = "runEnd" /\ event \in once ->
            [st EXCEPT !.end = time,
                       !.duration = IF st.start = Undefined THEN NaN ELSE time - st.start]
      [] OTHER -> st

\* createStatsCollector(runner) returned
StatsInit ==
    /\ stats = newStats
    /\ onceListeners = OnceEvents
    /\ eventCount = [e \in Events |-> 0]
    /\ clock = 0

EventsEmitted == eventCount["runBegin"] + eventCount["suiteBeginRoot"]
    + eventCount["suiteBegin"] + eventCount["testPass"] + eventCount["testFail"]
    + eventCount["testPending"] + eventCount["testEnd"] + eventCount["runEnd"]
    + eventCount["hookEnd"]

\* runner.emit(event)
Emit(event) ==
    /\ EventsEmitted < MaxEvents
    /\ eventCount' = [eventCount EXCEPT ![event] = @ + 1]
    /\ stats' = collect(stats, onceListeners, event, clock)
    /\ onceListeners' = onceListeners \ {event}
    /\ UNCHANGED clock
    /\ UNCHANGED <<runnableVars, execVars, mochaVars, runnerVars, timeoutVars, treeVars, spawnPrintsVars, callVars, sessionVars, stdinVars, objVars>>

\* a millisecond passes
ClockTick ==
    /\ clock < MaxClock
    /\ clock' = clock + 1
    /\ UNCHANGED <<stats, onceListeners, eventCount>>
    /\ UNCHANGED <<runnableVars, execVars, mochaVars, runnerVars, timeoutVars, treeVars, spawnPrintsVars, callVars, sessionVars, stdinVars, objVars>>

StatsNext ==
    \/ \E event \in Events : Emit(event)
    \/ ClockTick

(***************************************************************************)
(* execute: two invocations in progress at the same time                   *)
(***************************************************************************)
Calls == {1, 2}

\* the two children write different bytes: an ASCII letter, a NUL
childByte(call) == IF call = 1 THEN "a" ELSE "z"

\* locals kept in one place for all calls
closureOf_shared(call) == 1

\* the locals of the promise executor (the buffers, the offsets, reason and
\* spawnedProcess) exist once per call of execute
closureOf(call) == call

\* the locals after the executor ran: Buffer.alloc, 0, "success", the child
newClosure(call) ==
    [standardOutput |-> bufferAlloc(CallLimit), standardOutputOffset |-> 0,
     standardError |-> bufferAlloc(CallLimit), standardErrorOffset |-> 0,
     reason |-> "success", spawnedProcess |-> call]

\* both calls of execute returned: the children are spawned or the spawn failed
CallsInit ==
    /\ procs \in [Calls -> {[state |-> st, exitCode |-> "null", signalCode |-> "null"] :
                              st \in {"running", "failed"}}]
    /\ written = [c \in Calls |-> [out |-> <<>>, err |-> <<>>]]
    /\ delivery = [c \in Calls |-> [outRead |-> 0, errRead |-> 0,
                                    exitEmitted |-> FALSE, errorEmitted |-> FALSE]]
    /\ closures = [c \in Calls |-> newClosure(c)]
    /\ promises = [c \in Calls |-> [state |-> "pending", value |-> NoValue]]

\* the child of a call writes its byte to its standard output
CallChildWritesOut(c) ==
    /\ procs[c].state = "running"
    /\ Len(written[c].out) + Len(written[c].err) < MaxCallBytes
    /\ written' = [written EXCEPT ![c].out = Append(@, childByte(c))]
    /\ UNCHANGED <<procs, delivery, closures, promises>>
    /\ UNCHANGED <<runnableVars, execVars, mochaVars, runnerVars, timeoutVars, treeVars, spawnPrintsVars, statsVars, sessionVars, stdinVars, objVars>>

\* the child of a call writes its byte to its standard error
CallChildWritesErr(c) ==
    /\ procs[c].state = "running"
    /\ Len(written[c].out) + Len(written[c].err) < MaxCallBytes
    /\ written' = [written EXCEPT ![c].err = Append(@, childByte(c))]
    /\ UNCHANGED <<procs, delivery, closures, promises>>
    /\ UNCHANGED <<runnableVars, execVars, mochaVars, runnerVars, timeoutVars, treeVars, spawnPrintsVars, statsVars, sessionVars, stdinVars, objVars>>

\* the child of a call exits on its own
CallChildExits(c, code) ==
    /\ procs[c].state = "running"
    /\ procs' = [procs EXCEPT ![c] = [state |-> "exited", exitCode |-> code,
                                      signalCode |-> "null"]]
    /\ UNCHANGED <<written, delivery, closures, promises>>
    /\ UNCHANGED <<runnableVars, execVars, mochaVars, runnerVars, timeoutVars, treeVars, spawnPrintsVars, statsVars, sessionVars, stdinVars, objVars>>

\* the stdout data handler of a call gets a chunk of n bytes
CallStdoutData(c, n) ==
    /\ n \in 1..(Len(written[c].out) - delivery[c].outRead)
    /\ LET k == closureOf(c)
           data == SubSeq(written[c].out, delivery[c].outRead + 1, delivery[c].outRead + n)
           w == bufferWrite(closures[k].standardOutput, utf8Decode(data),
                            closures[k].standardOutputOffset)
       IN  /\ delivery' = [delivery EXCEPT ![c].outRead = @ + n]
           /\ closures' = [closures EXCEPT
                  ![k].standardOutput = w.buf,
                  ![k].standardOutputOffset = @ + w.written,
                  ![k].reason = IF w.written # Len(data)
                                    THEN "standard_output_exceeded" ELSE @]
           /\ IF w.written # Len(data)
                THEN \E p \in killOutcomes(procs[closures[k].spawnedProcess], "SIGKILL") :
                         procs' = [procs EXCEPT ![closures[k].spawnedProcess] = p]
                ELSE UNCHANGED procs
    /\ UNCHANGED <<written, promises>>
    /\ UNCHANGED <<runnableVars, execVars, mochaVars, runnerVars, timeoutVars, treeVars, spawnPrintsVars, statsVars, sessionVars, stdinVars, objVars>>

\* the stderr data handler of a call gets a chunk of n bytes
CallStderrData(c, n) ==
    /\ n \in 1..(Len(written[c].err) - delivery[c].errRead)
    /\ LET k == closureOf(c)
           data == SubSeq(written[c].err, delivery[c].errRead + 1, delivery[c].errRead + n)
           w == bufferWrite(closures[k].standardError, utf8Decode(data),
                            closures[k].standardErrorOffset)
       IN  /\ delivery' = [delivery EXCEPT ![c].errRead = @ + n]
           /\ closures' = [closures EXCEPT
                  ![k].standardError = w.buf,
                  ![k].standardErrorOffset = @ + w.written,
                  ![k].reason = IF w.written # Len(data)
                                    THEN "standard_error_exceeded" ELSE @]
           /\ IF w.written # Len(data)
                THEN \E p \in killOutcomes(procs[closures[k].spawnedProcess], "SIGKILL") :
                         procs' = [procs EXCEPT ![closures[k].spawnedProcess] = p]
                ELSE UNCHANGED procs
    /\ UNCHANGED <<written, promises>>
    /\ UNCHANGED <<runnableVars, execVars, mochaVars, runnerVars, timeoutVars, treeVars, spawnPrintsVars, statsVars, sessionVars, stdinVars, objVars>>

\* the exit handler of a call: its child has ended
CallExitEvent(c) ==
    /\ procs[c].state \in {"exited", "killed"}
    /\ ~delivery[c].exitEmitted
    /\ delivery' = [delivery EXCEPT ![c].exitEmitted = TRUE]
    /\ LET k == closureOf(c)
       IN  promises' = [promises EXCEPT ![c] =
               settle(@, "resolved",
                   [exitCode |-> procs[c].exitCode,
                    standardOutput |-> bufferToString(closures[k].standardOutput,
                                                      closures[k].standardOutputOffset),
                    standardError |-> bufferToString(closures[k].standardError,
                                                     closures[k].standardErrorOffset),
                    reason |-> closures[k].reason,
                    signal |-> procs[c].signalCode])]
    /\ UNCHANGED <<procs, written, closures>>
    /\ UNCHANGED <<runnableVars, execVars, mochaVars, runnerVars, timeoutVars, treeVars, spawnPrintsVars, statsVars, sessionVars, stdinVars, objVars>>

\* the error handler of a call: its child could not be spawned
CallErrorEvent(c) ==
    /\ procs[c].state = "failed"
    /\ ~delivery[c].errorEmitted
    /\ delivery' = [delivery EXCEPT ![c].errorEmitted = TRUE]
    /\ promises' = [promises EXCEPT ![c] =
           settle(@, "rejected", [NoValue EXCEPT !.reason = "spawn error"])]
    /\ UNCHANGED <<procs, written, closures>>
    /\ UNCHANGED <<runnableVars, execVars, mochaVars, runnerVars, timeoutVars, treeVars, spawnPrintsVars, statsVars, sessionVars, stdinVars, objVars>>

\* a step of one call: of its child or of one of its handlers
CallStep(c) ==
    \/ CallChildWritesOut(c)
    \/ CallChildWritesErr(c)
    \/ \E code \in ExitCodes : CallChildExits(c, code)
    \/ \E n \in 1..MaxCallBytes : CallStdoutData(c, n)
    \/ \E n \in 1..MaxCallBytes : CallStderrData(c, n)
    \/ CallExitEvent(c)
    \/ CallErrorEvent(c)

CallsNext == \E c \in Calls : CallStep(c)

(***************************************************************************)
(* Mocha.run again and again on one instance that keeps its references.    *)
(* Suite.reset and the runner's handling of a test are modelled from the   *)
(* specification (3 Data model, 4.2), Mocha.run, the reset of a Test and   *)
(* the stats collector from the code.                                      *)
(***************************************************************************)
\* what the body of a test does, the same on every run
Bodies == {"passes", "fails", "skips", "timesOut"}

\* Suite.reset: every runnable of the tree is reset
suiteReset(tsts) == [i \in 1..Len(tsts) |-> TestReset(tsts[i])]

\* the runner on one test: a pending test is reported as pending and not
\* run; otherwise the body runs and the test passes, fails (a test without
\* body by the TypeError of the call), turns pending by skip() or fails by
\* its timeout; the test afterwards and the events emitted
runTest(t, body) ==
    IF t.pending
        THEN [test |-> t, events |-> <<"testPending", "testEnd">>]
    ELSE IF ~t.fn
        THEN [test |-> [t EXCEPT !.state = "failed"], events |-> <<"testFail", "testEnd">>]
    ELSE CASE body = "passes" ->
                [test |-> [t EXCEPT !.state = "passed"], events |-> <<"testPass", "testEnd">>]
           [] body = "fails" ->
                [test |-> [t EXCEPT !.state = "failed"], events |-> <<"testFail", "testEnd">>]
           [] body = "skips" ->
                [test |-> [t EXCEPT !.pending = TRUE], events |-> <<"testPending", "testEnd">>]
           [] OTHER ->
                [test |-> [t EXCEPT !.timedOut = TRUE, !.state = "failed"],
                 events |-> <<"testFail", "testEnd">>]

\* the listeners of the stats collector on a sequence of events
RECURSIVE collectAll(_, _, _)
collectAll(st, once, events) ==
    IF events = <<>>
        THEN st
        ELSE collectAll(collect(st, once, Head(events), 0), once \ {Head(events)},
                        Tail(events))

\* the stats object of a runner that is the one of the runner before it
statsOf_previous(runner) == sStats

\* createStatsCollector(runner): runner.stats
statsOf(runner) == newStats

\* a Mocha instance with cleanReferencesAfterRun(false) and a loaded tree
SessionInit ==
    /\ sTests \in UNION {[1..n -> {Test(1, fn) : fn \in BOOLEAN}] : n \in 1..MaxTests}
    /\ sBodies \in [1..Len(sTests) -> Bodies]
    /\ \A i \in 1..Len(sTests) : ~sTests[i].fn => sBodies[i] = "passes"
    /\ sState = INIT
    /\ sPrevious = 0
    /\ sRunner = 0
    /\ sCursor = 0
    /\ sStats = newStats
    /\ sOnce = {}
    /\ sReports = <<>>

\* Mocha.run(fn) up to its return, the files being loaded already
SessionRun ==
    /\ sState = INIT
    /\ sRunner < MaxRuns
    /\ sState' = RUNNING
    /\ sTests' = IF sPrevious # 0 THEN suiteReset(sTests) ELSE sTests
    /\ sRunner' = sRunner + 1
    /\ sStats' = statsOf(sRunner + 1)
    /\ sOnce' = OnceEvents
    /\ sCursor' = 0
    /\ UNCHANGED <<sBodies, sPrevious, sReports>>
    /\ UNCHANGED <<runnableVars, execVars, mochaVars, runnerVars, timeoutVars, treeVars, spawnPrintsVars, statsVars, callVars, stdinVars, objVars>>

\* the runner starts: the run and the root suite begin
SessionRunnerBegins ==
    /\ sState = RUNNING
    /\ sCursor = 0
    /\ sCursor' = 1
    /\ sStats' = collectAll(sStats, sOnce, <<"runBegin", "suiteBeginRoot">>)
    /\ sOnce' = sOnce \ {"runBegin"}
    /\ UNCHANGED <<sTests, sBodies, sState, sPrevious, sRunner, sReports>>
    /\ UNCHANGED <<runnableVars, execVars, mochaVars, runnerVars, timeoutVars, treeVars, spawnPrintsVars, statsVars, callVars, stdinVars, objVars>>

\* the runner is through with the next test.  A test whose body runs while
\* timedOut is still set from an earlier run never completes.
SessionRunnerRunsTest ==
    /\ sState = RUNNING
    /\ sCursor \in 1..Len(sTests)
    /\ ~(sTests[sCursor].timedOut /\ sTests[sCursor].fn /\ ~sTests[sCursor].pending)
    /\ LET r == runTest(sTests[sCursor], sBodies[sCursor])
       IN  /\ sTests' = [sTests EXCEPT ![sCursor] = r.test]
           /\ sStats' = collectAll(sStats, sOnce, r.events)
    /\ sCursor' = sCursor + 1
    /\ UNCHANGED <<sBodies, sState, sPrevious, sRunner, sOnce, sReports>>
    /\ UNCHANGED <<runnableVars, execVars, mochaVars, runnerVars, timeoutVars, treeVars, spawnPrintsVars, statsVars, callVars, stdinVars, objVars>>

\* the runner ends the run and Mocha.run's done callback is called
SessionRunDone ==
    /\ sState = RUNNING
    /\ sCursor = Len(sTests) + 1
    /\ sCursor' = sCursor + 1
    /\ sStats' = collectAll(sStats, sOnce, <<"runEnd">>)
    /\ sOnce' = sOnce \ {"runEnd"}
    /\ sPrevious' = sRunner
    /\ sState' = INIT
    /\ sReports' = Append(sReports,
           [tests |-> [i \in 1..Len(sTests) |->
                          [state |-> sTests[i].state, pending |-> sTests[i].pending,
                           timedOut |-> sTests[i].timedOut]],
            counters |-> [suites |-> sStats.suites, tests |-> sStats.tests,
                          passes |-> sStats.passes, pending |-> sStats.pending,
                          failures |-> sStats.failures]])
    /\ UNCHANGED <<sTests, sBodies, sRunner>>
    /\ UNCHANGED <<runnableVars, execVars, mochaVars, runnerVars, timeoutVars, treeVars, spawnPrintsVars, statsVars, callVars, stdinVars, objVars>>

SessionNext ==
    \/ SessionRun
    \/ SessionRunnerBegins
    \/ SessionRunnerRunsTest
    \/ SessionRunDone

(***************************************************************************)
(* execute(): the standard input of the child                              *)
(***************************************************************************)
MaxInput == 3
MaxConfig == 1

InputChars == {"a", "b", "\n"}

\* a JavaScript value that the standardInput option can hold
StringValue(s) == [type |-> "string", chars |-> s]
UndefinedValue == [type |-> "undefined", chars |-> <<>>]

InputStrings == UNION {[1..n -> InputChars] : n \in 0..MaxInput}

\* const defaultOptions = { ..., standardInput: "", ... }
defaultStandardInput == [standardInput |-> StringValue(<<>>)]

\* { ...defaultOptions, ...customOptions }
spread(defaults, custom) ==
    [k \in DOMAIN defaults \cup DOMAIN custom |->
        IF k \in DOMAIN custom THEN custom[k] ELSE defaults[k]]

\* if (options.standardInput): undefined and the empty string are falsy
truthy(v) == v.type = "string" /\ v.chars # <<>>

stdinPayload_raw(input) == input

\* options.standardInput + "\n"
stdinPayload(input) == input \o <<"\n">>

StdinInit ==
    /\ customOptions \in
           {[k \in {} |-> StringValue(<<>>)]} \cup
           {[standardInput |-> v] :
               v \in {UndefinedValue} \cup {StringValue(s) : s \in InputStrings}}
    /\ stdinCalled = FALSE
    /\ stdinWritten = <<>>
    /\ stdinEnded = FALSE
    /\ stdinRead = 0
    /\ stdinEof = FALSE

\* execute(executable, argumentVector, customOptions): the promise executor
StdinExecute ==
    /\ ~stdinCalled
    /\ stdinCalled' = TRUE
    /\ LET merged == spread(defaultStandardInput, customOptions)
       IN  IF truthy(merged.standardInput)
           THEN /\ stdinWritten' = stdinWritten \o stdinPayload(merged.standardInput.chars)
                /\ stdinEnded' = TRUE
           ELSE UNCHANGED <<stdinWritten, stdinEnded>>
    /\ UNCHANGED <<customOptions, stdinRead, stdinEof>>
    /\ UNCHANGED <<runnableVars, execVars, mochaVars, runnerVars, timeoutVars, treeVars, spawnPrintsVars, statsVars, callVars, sessionVars, objVars>>

\* the child reads one character of its standard input
StdinChildReads ==
    /\ stdinRead < Len(stdinWritten)
    /\ stdinRead' = stdinRead + 1
    /\ UNCHANGED <<customOptions, stdinCalled, stdinWritten, stdinEnded, stdinEof>>
    /\ UNCHANGED <<runnableVars, execVars, mochaVars, runnerVars, timeoutVars, treeVars, spawnPrintsVars, statsVars, callVars, sessionVars, objVars>>

\* the child reads past the last character of a closed stream
StdinChildSeesEnd ==
    /\ stdinEnded
    /\ stdinRead = Len(stdinWritten)
    /\ ~stdinEof
    /\ stdinEof' = TRUE
    /\ UNCHANGED <<customOptions, stdinCalled, stdinWritten, stdinEnded, stdinRead>>
    /\ UNCHANGED <<runnableVars, execVars, mochaVars, runnerVars, timeoutVars, treeVars, spawnPrintsVars, statsVars, callVars, sessionVars, objVars>>

StdinNext ==
    \/ StdinExecute
    \/ StdinChildReads
    \/ StdinChildSeesEnd

(***************************************************************************)
(* reset() of a Test and of a Hook                                         *)
(***************************************************************************)
\* new Runnable(title, description, fn), before the reset() that ends it
RunnableFields(title, fn) ==
    [title |-> title, fn |-> fn, parent |-> 0,
     timeoutMs |-> number(DefaultTimeout, 0), slowMs |-> 75, retriesN |-> -1,
     timedOut |-> FALSE, currentRetry |-> 0, pending |-> FALSE,
     state |-> "unset", err |-> "unset"]

\* Hook.reset
HookReset(h) == [RunnableReset(h) EXCEPT !.error = "unset"]

\* obj.reset(): the method of the object's class
ObjReset(o) == IF o.type = "hook" THEN HookReset(o) ELSE TestReset(o)

\* new Test(title, description, fn)
NewTest(title, fn) ==
    TestReset([k \in DOMAIN RunnableFields(title, fn) \cup {"type"} |->
                  IF k = "type" THEN "test" ELSE RunnableFields(title, fn)[k]])

\* new Hook(title, fn)
NewHook(title, fn) ==
    HookReset([k \in DOMAIN RunnableFields(title, fn) \cup {"type", "error"} |->
                  IF k = "type" THEN "hook"
                  ELSE IF k = "error" THEN "unset"
                  ELSE RunnableFields(title, fn)[k]])

\* the object after its constructor and after it was added to a suite
ObjInit ==
    /\ \E title \in Titles, fn \in BOOLEAN, parent \in 1..2 :
          obj \in {[NewTest(title, fn) EXCEPT !.parent = parent],
                   [NewHook(title, TRUE) EXCEPT !.parent = parent]}
    /\ objOp = "new"

\* timeout(ms), slow(ms) or retries(n) called with an argument
ObjConfigure(what, n) ==
    /\ obj' = CASE what = "timeout" -> [obj EXCEPT !.timeoutMs = timeout(number(n, 0))]
                [] what = "slow" -> [obj EXCEPT !.slowMs = n]
                [] what = "retries" -> [obj EXCEPT !.retriesN = n]
    /\ objOp' = "set"
    /\ UNCHANGED <<runnableVars, execVars, mochaVars, runnerVars, timeoutVars, treeVars, spawnPrintsVars, statsVars, callVars, sessionVars, stdinVars>>

\* the body calls this.skip(), or the timer of run() expires
ObjRuns(what) ==
    /\ obj' = CASE what = "skip" -> [obj EXCEPT !.pending = TRUE]
                [] what = "timedOut" -> [obj EXCEPT !.timedOut = TRUE]
    /\ objOp' = "run"
    /\ UNCHANGED <<runnableVars, execVars, mochaVars, runnerVars, timeoutVars, treeVars, spawnPrintsVars, statsVars, callVars, sessionVars, stdinVars>>

\* currentRetry(n)
ObjCurrentRetry(n) ==
    /\ obj' = [obj EXCEPT !.currentRetry = n]
    /\ objOp' = "run"
    /\ UNCHANGED <<runnableVars, execVars, mochaVars, runnerVars, timeoutVars, treeVars, spawnPrintsVars, statsVars, callVars, sessionVars, stdinVars>>

\* the runner records the outcome of a run: state, and err when it failed
ObjOutcome(state) ==
    /\ obj' = [obj EXCEPT !.state = state,
                          !.err = IF state = "failed" THEN "Error" ELSE @]
    /\ objOp' = "run"
    /\ UNCHANGED <<runnableVars, execVars, mochaVars, runnerVars, timeoutVars, treeVars, spawnPrintsVars, statsVars, callVars, sessionVars, stdinVars>>

\* hook.error(err) stores the error, hook.error() hands it out and leaves null
ObjHookError(set) ==
    /\ obj.type = "hook"
    /\ obj' = [obj EXCEPT !.error = IF set THEN "Error" ELSE "null"]
    /\ objOp' = "run"
    /\ UNCHANGED <<runnableVars, execVars, mochaVars, runnerVars, timeoutVars, treeVars, spawnPrintsVars, statsVars, callVars, sessionVars, stdinVars>>

\* obj.reset()
ObjIsReset ==
    /\ obj' = ObjReset(obj)
    /\ objOp' = "reset"
    /\ UNCHANGED <<runnableVars, execVars, mochaVars, runnerVars, timeoutVars, treeVars, spawnPrintsVars, statsVars, callVars, sessionVars, stdinVars>>

ObjNext ==
    \/ \E what \in {"timeout", "slow", "retries"}, n \in 0..MaxConfig : ObjConfigure(what, n)
    \/ \E what \in {"skip", "timedOut"} : ObjRuns(what)
    \/ \E n \in 0..MaxRetries : ObjCurrentRetry(n)
    \/ \E state \in {"passed", "failed"} : ObjOutcome(state)
    \/ \E set \in BOOLEAN : ObjHookError(set)
    \/ ObjIsReset

(***************************************************************************)
(* Specifications                                                          *)
(***************************************************************************)
\* a Runnable that was not run
RunnableIdle ==
    /\ cfg = [async |-> FALSE, fnKind |-> "function", allowUncaught |-> FALSE,
              asyncOnly |-> FALSE, parentPending |-> FALSE]
    /\ timeoutMs = 0 /\ timedOut = FALSE /\ pending = FALSE /\ timer = NoTimer
    /\ callback = FALSE /\ duration = -1 /\ finished = FALSE
    /\ errorWasHandled = FALSE /\ elapsed = 0 /\ pc = "notStarted"
    /\ plan = "silent" /\ result = "undefined" /\ promise = "none"
    /\ doneCalls = 0 /\ fnCalls = <<>> /\ emitted = <<>>

\* no execute call
ExecIdle ==
    /\ options = [standardOutputLimit |-> 1, standardErrorLimit |-> 1, timeout |-> 0]
    /\ spawnedProcess = [state |-> "failed", exitCode |-> "null", signalCode |-> "null"]
    /\ outData = <<>> /\ outRead = 0 /\ errData = <<>> /\ errRead = 0
    /\ standardOutput = bufferAlloc(1) /\ standardOutputOffset = 0
    /\ standardError = bufferAlloc(1) /\ standardErrorOffset = 0
    /\ reason = "success" /\ killCalls = 0 /\ timeoutKilled = FALSE
    /\ exitEmitted = FALSE /\ errorEmitted = FALSE
    /\ settled = [state |-> "pending", value |-> NoValue]

\* a Mocha instance that is not used
MochaIdle ==
    /\ mochaState = INIT /\ cleanReferencesAfterRun = TRUE /\ previousRunner = 0
    /\ runners = [r \in RunnerIds |-> "none"] /\ thrown = "none"

\* no run of the runner
RunnerIdle ==
    /\ maxRetries = -1
    /\ rPos = IdlePos /\ rFin = TRUE /\ rPrevPos = IdlePos /\ rPrevFin = TRUE
    /\ rExecuting = 0 /\ rSignals = 0 /\ rTest = newTest(-1)
    /\ rAttempts = [s \in Suites |-> 0] /\ rState = [s \in Suites |-> "unset"]
    /\ rErr = [s \in Suites |-> "none"]
    /\ rFinalRetry = [s \in Suites |-> 0] /\ rBodyFails = [s \in Suites |-> 0]
    /\ rHookFailures = [s \in Suites |-> 0] /\ rTestFailures = [s \in Suites |-> 0]
    /\ rAfterAll = {} /\ rLog = <<>>

TimeoutIdle ==
    /\ tCalled = FALSE
    /\ tArg = [base |-> 0, over |-> 0]
    /\ tTimeout = [base |-> 0, over |-> 0]

TreeIdle ==
    /\ mochaOptions = [forbidOnly |-> FALSE, forbidPending |-> FALSE,
                       grep |-> "none", invert |-> FALSE]
    /\ suites = <<1>>
    /\ suiteObjs = <<[parent |-> 0, title |-> "", pending |-> FALSE, only |-> FALSE]>>
    /\ tests = <<>>
    /\ declThrown = "none"
    /\ loaded = FALSE
    /\ resets = 0

SpawnPrintsIdle ==
    /\ spCommand = TRUE
    /\ spExpected = [output |-> <<>>, error |-> <<>>]
    /\ spExecution = [state |-> "none", standardOutput |-> <<>>, standardError |-> <<>>]
    /\ spOutcome = [state |-> "notCalled", kind |-> "none"]

StatsIdle ==
    /\ stats = [suites |-> 0, tests |-> 0, passes |-> 0, pending |-> 0, failures |-> 0,
                start |-> -1, end |-> -1, duration |-> -1]
    /\ onceListeners = {}
    /\ eventCount = [e \in {} |-> 0]
    /\ clock = 0

CallsIdle ==
    /\ procs = <<>>
    /\ written = <<>>
    /\ delivery = <<>>
    /\ closures = <<>>
    /\ promises = <<>>

SessionIdle ==
    /\ sTests = <<>>
    /\ sBodies = <<>>
    /\ sState = "init"
    /\ sPrevious = 0
    /\ sRunner = 0
    /\ sCursor = 0
    /\ sStats = [suites |-> 0, tests |-> 0, passes |-> 0, pending |-> 0, failures |-> 0,
                 start |-> -1, end |-> -1, duration |-> -1]
    /\ sOnce = {}
    /\ sReports = <<>>

StdinIdle ==
    /\ customOptions = [k \in {} |-> StringValue(<<>>)]
    /\ stdinCalled = FALSE
    /\ stdinWritten = <<>>
    /\ stdinEnded = FALSE
    /\ stdinRead = 0
    /\ stdinEof = FALSE

ObjIdle ==
    /\ obj = [type |-> "none"]
    /\ objOp = "new"

RunnableSpecInit == RunnableInit /\ ExecIdle /\ MochaIdle /\ RunnerIdle /\ TimeoutIdle /\ TreeIdle /\ SpawnPrintsIdle /\ StatsIdle /\ CallsIdle /\ SessionIdle /\ StdinIdle /\ ObjIdle

RunnableSpec ==
    /\ RunnableSpecInit
    /\ [][RunnableNext]_vars

\* timers expire and their callbacks run: the event loop is free whenever
\* no body is in its synchronous phase
RunnableFairSpec ==
    /\ RunnableSpec
    /\ WF_vars(Tick)
    /\ WF_vars(TimerFires)

ExecSpecInit == ExecInit /\ RunnableIdle /\ MochaIdle /\ RunnerIdle /\ TimeoutIdle /\ TreeIdle /\ SpawnPrintsIdle /\ StatsIdle /\ CallsIdle /\ SessionIdle /\ StdinIdle /\ ObjIdle

ExecSpec ==
    /\ ExecSpecInit
    /\ [][ExecNext]_vars

\* a callback of the call that the event loop has to run: a chunk of a
\* pipe, the timeout of the spawn options, an event of the child
ExecEvent ==
    \/ \E n \in 1..MaxBytes : StdoutData(n)
    \/ \E n \in 1..MaxBytes : StderrData(n)
    \/ TimeoutElapses
    \/ ExitEvent
    \/ ErrorEvent

\* the event loop keeps running the callbacks that are due
ExecFairSpec ==
    /\ ExecSpec
    /\ WF_vars(ExecEvent)

MochaSpecInit == MochaInit /\ RunnableIdle /\ ExecIdle /\ RunnerIdle /\ TimeoutIdle /\ TreeIdle /\ SpawnPrintsIdle /\ StatsIdle /\ CallsIdle /\ SessionIdle /\ StdinIdle /\ ObjIdle

MochaSpec ==
    /\ MochaSpecInit
    /\ [][MochaNext]_vars

RunnerSpecInit == RunnerInit /\ RunnableIdle /\ ExecIdle /\ MochaIdle /\ TimeoutIdle /\ TreeIdle /\ SpawnPrintsIdle /\ StatsIdle /\ CallsIdle /\ SessionIdle /\ StdinIdle /\ ObjIdle

RunnerSpec ==
    /\ RunnerSpecInit
    /\ [][RunnerNext]_vars

TimeoutSpecInit == TimeoutInit /\ RunnableIdle /\ ExecIdle /\ MochaIdle /\ RunnerIdle /\ TreeIdle /\ SpawnPrintsIdle /\ StatsIdle /\ CallsIdle /\ SessionIdle /\ StdinIdle /\ ObjIdle

TimeoutSpec ==
    /\ TimeoutSpecInit
    /\ [][TimeoutNext]_vars

TreeSpecInit ==
    /\ TreeInit
    /\ RunnableIdle /\ ExecIdle /\ MochaIdle /\ RunnerIdle /\ TimeoutIdle
    /\ SpawnPrintsIdle /\ StatsIdle /\ CallsIdle /\ SessionIdle /\ StdinIdle
    /\ ObjIdle

TreeSpec ==
    /\ TreeSpecInit
    /\ [][TreeNext]_vars

QUnitSpecInit ==
    /\ TreeInit
    /\ RunnableIdle /\ ExecIdle /\ MochaIdle /\ RunnerIdle /\ TimeoutIdle
    /\ SpawnPrintsIdle /\ StatsIdle /\ CallsIdle /\ SessionIdle /\ StdinIdle
    /\ ObjIdle

QUnitSpec ==
    /\ QUnitSpecInit
    /\ [][QUnitNext]_vars

SpawnPrintsSpecInit ==
    /\ SpawnPrintsInit
    /\ RunnableIdle /\ ExecIdle /\ MochaIdle /\ RunnerIdle /\ TimeoutIdle /\ TreeIdle
    /\ StatsIdle /\ CallsIdle /\ SessionIdle /\ StdinIdle /\ ObjIdle

SpawnPrintsSpec ==
    /\ SpawnPrintsSpecInit
    /\ [][SpawnPrintsNext]_vars

StatsSpecInit ==
    /\ StatsInit
    /\ RunnableIdle /\ ExecIdle /\ MochaIdle /\ RunnerIdle /\ TimeoutIdle /\ TreeIdle
    /\ SpawnPrintsIdle /\ CallsIdle /\ SessionIdle /\ StdinIdle /\ ObjIdle

StatsSpec ==
    /\ StatsSpecInit
    /\ [][StatsNext]_vars

CallsSpecInit ==
    /\ CallsInit
    /\ RunnableIdle /\ ExecIdle /\ MochaIdle /\ RunnerIdle /\ TimeoutIdle /\ TreeIdle
    /\ SpawnPrintsIdle /\ StatsIdle /\ SessionIdle /\ StdinIdle /\ ObjIdle

CallsSpec ==
    /\ CallsSpecInit
    /\ [][CallsNext]_vars

SessionSpecInit ==
    /\ SessionInit
    /\ RunnableIdle /\ ExecIdle /\ MochaIdle /\ RunnerIdle /\ TimeoutIdle /\ TreeIdle
    /\ SpawnPrintsIdle /\ StatsIdle /\ CallsIdle /\ StdinIdle /\ ObjIdle

SessionSpec ==
    /\ SessionSpecInit
    /\ [][SessionNext]_vars

StdinSpecInit ==
    /\ StdinInit
    /\ RunnableIdle /\ ExecIdle /\ MochaIdle /\ RunnerIdle /\ TimeoutIdle /\ TreeIdle
    /\ SpawnPrintsIdle /\ CallsIdle /\ SessionIdle /\ StatsIdle /\ ObjIdle

StdinSpec ==
    /\ StdinSpecInit
    /\ [][StdinNext]_vars

ObjSpecInit ==
    /\ ObjInit
    /\ RunnableIdle /\ ExecIdle /\ MochaIdle /\ RunnerIdle /\ TimeoutIdle /\ TreeIdle
    /\ SpawnPrintsIdle /\ CallsIdle /\ SessionIdle /\ StatsIdle /\ StdinIdle

ObjSpec ==
    /\ ObjSpecInit
    /\ [][ObjNext]_vars

(***************************************************************************)
(* Claims about Runnable.run                                               *)
(***************************************************************************)
\* a completion signal of the current invocation
CompletionSignal ==
    \/ \E arg \in DoneArgs : BodyDone(arg)
    \/ \E how \in Settlements : PromiseSettles(how)
    \/ \E v \in ThrownValues : BodyThrows(v) /\ ~cfg.allowUncaught
    \/ BodySkip
    \/ TimerFires /\ timeoutMs # 0

\* C1 as stated: the completion callback of an invocation is called at most
\* once, and every completion signal after the first is reported as a
\* multiple-completion error event, calls the callback no further and
\* leaves the delivered result alone.
C1_AsStated ==
    [][/\ Len(fnCalls') <= 1
       /\ (CompletionSignal /\ fnCalls # <<>>) =>
              /\ fnCalls' = fnCalls
              /\ duration' = duration
              /\ Len(emitted') = Len(emitted) + 1]_vars

\* C1 amended: the completion callback of an invocation is called at most
\* once; a completion signal after the first never calls it again and never
\* changes the delivered result or the duration; it is reported as a
\* multiple-completion error event exactly when the runnable has not timed
\* out, no error of this invocation was handled before and the signal is not
\* a synchronous throw; otherwise it is dropped silently.
C1_AtMostOnce ==
    [][/\ Len(fnCalls') <= 1
       /\ (CompletionSignal /\ fnCalls # <<>>) =>
              /\ fnCalls' = fnCalls
              /\ duration' = duration
              /\ IF ~timedOut /\ ~errorWasHandled /\ ~(\E v \in ThrownValues : BodyThrows(v))
                    THEN /\ Len(emitted') = Len(emitted) + 1
                         /\ SubSeq(emitted', 1, Len(emitted)) = emitted
                         /\ emitted'[Len(emitted')].kind = "MultipleDoneError"
                    ELSE emitted' = emitted]_vars

\* a second done() was reported, the callback was called once
C1_Witness ==
    /\ Len(fnCalls) = 1
    /\ doneCalls >= 2
    /\ Len(emitted) = 1

\* the body of the current invocation has returned without signalling, on
\* a runnable that has its timeout
C2_Unsignalled ==
    /\ pc = "waiting"
    /\ plan = "silent"
    /\ cfg.async \/ promise = "pending"
    /\ timeoutMs > 0

\* C2: a runnable whose body takes a done callback or returns a promise,
\* never signals completion and has timeout T > 0 is finalized: its
\* completion callback is called, once and with a TimeoutError of limit T,
\* and it is never left unfinished.
C2_AsStated ==
    /\ [](C2_Unsignalled => fnCalls \in {<<>>, <<createTimeoutError(timeoutMs)>>})
    /\ C2_Unsignalled ~> (fnCalls = <<createTimeoutError(timeoutMs)>>)

\* the body raises the skip signal before it has given any completion signal
FirstSkip == BodySkip /\ fnCalls = <<>> /\ ~finished

\* C17 as stated: a skip raised synchronously by a body (with or without
\* done parameter) marks the runnable pending and completes the invocation
\* once and without an error: the completion callback is called with no
\* error, so that the skip is not reported as a failure.
C17_AsStated ==
    [][FirstSkip => /\ pending'
                    /\ fnCalls' = <<NoErr>>]_vars

\* C18: run() on a runnable that is pending, by itself or through its
\* parent suite, does not enter the body: it calls the completion callback
\* at once with no error, arms no timer and records no duration.
C18_PendingNotRun ==
    [][\A p \in {"silent", "active"} :
          (Run(p) /\ (pending \/ cfg.parentPending)) =>
              /\ pc' = "ended"
              /\ fnCalls' = <<NoErr>>
              /\ timer' = timer
              /\ duration' = duration]_vars

\* a runnable of a pending suite was run: the callback was called without
\* error, no timer exists and no duration was recorded
C18_Witness ==
    /\ cfg.parentPending
    /\ ~pending
    /\ cfg.fnKind = "function"
    /\ plan = "active"
    /\ pc = "ended"
    /\ fnCalls = <<NoErr>>
    /\ timer = NoTimer
    /\ duration = -1

\* C19 as stated: a body that throws synchronously (the exception being
\* left to run()) or whose promise rejects finalizes with an error, never
\* as success; the error is the thrown or rejected value, a thrown falsy
\* value becomes an InvalidExceptionError and a rejection without reason a
\* generic Error.
C19_AsStated ==
    [][/\ \A v \in ThrownValues :
              (BodyThrows(v) /\ ~cfg.allowUncaught) =>
                  /\ Len(fnCalls') = 1
                  /\ fnCalls'[1].kind # "none"
                  /\ fnCalls = <<>> =>
                         fnCalls'[1].kind = IF v = "falsy" THEN "InvalidExceptionError"
                                                           ELSE "Error"
       /\ \A how \in {"rejected", "rejectedFalsy"} :
              PromiseSettles(how) =>
                  /\ Len(fnCalls') = 1
                  /\ fnCalls'[1].kind # "none"
                  /\ fnCalls = <<>> =>
                         fnCalls'[1].kind = IF how = "rejected" THEN "Error"
                                                                ELSE "RejectedFalsy"]_vars

\* a body completes successfully: a synchronous body returns, a body with
\* done parameter calls done(), the returned promise is fulfilled
SuccessfulCompletion ==
    \/ BodyReturns("undefined") /\ ~cfg.async /\ ~cfg.asyncOnly
    \/ BodyDone("undefined") /\ result # "promise"
    \/ PromiseSettles("resolved")

\* C20 as stated: with timeout 0 no step arms a timer, no completion
\* callback receives a TimeoutError, and a body that completes successfully
\* before any other completion is reported as success, however long it took.
C20_AsStated ==
    [][/\ timeoutMs' = 0 => (timer'.armed => timer.armed)
       /\ (timeoutMs = 0 /\ fnCalls' # fnCalls /\ fnCalls' # <<>>) =>
              fnCalls'[Len(fnCalls')].kind # "TimeoutError"
       /\ (timeoutMs = 0 /\ SuccessfulCompletion /\ fnCalls = <<>> /\ ~finished) =>
              fnCalls' = <<NoErr>>]_vars

\* a body completes with an Error: done(err), a rejection with an Error, an
\* Error thrown by the body and caught by run()
ErrorCompletion ==
    \/ BodyDone("Error")
    \/ PromiseSettles("rejected")
    \/ BodyThrows("Error") /\ ~cfg.allowUncaught /\ cfg.fnKind = "function"

\* C28: while no timer has fired (timedOut is unset), the first completion
\* of an invocation, when it is a successful one that comes more than
\* timeoutMs > 0 measured milliseconds after the start, hands the callback a
\* TimeoutError instead of success; when it carries an Error, it hands the
\* callback that Error, whatever the duration.
C28_DurationCheck ==
    [][/\ (/\ SuccessfulCompletion /\ fnCalls = <<>> /\ ~finished /\ ~timedOut
           /\ timeoutMs > 0 /\ elapsed > timeoutMs) =>
              /\ fnCalls' = <<createTimeoutError(timeoutMs)>>
              /\ duration' = elapsed
       /\ (ErrorCompletion /\ fnCalls = <<>> /\ ~finished /\ ~timedOut) =>
              fnCalls' = <<Err("Error")>>]_vars

\* a synchronous body returned later than its timeout allows and the
\* callback was handed a TimeoutError though no timer fired
C28_Witness ==
    /\ ~cfg.async /\ result = "undefined" /\ pc = "ended"
    /\ ~timedOut /\ ~timer.set
    /\ timeoutMs > 0 /\ duration > timeoutMs
    /\ fnCalls = <<createTimeoutError(timeoutMs)>>

\* the timer of the running invocation expired and its TimeoutError is what
\* the callback received
TimeoutDelivered ==
    /\ timedOut
    /\ fnCalls # <<>>
    /\ fnCalls[Len(fnCalls)].kind = "TimeoutError"

\* C29: once the timer expired and the callback received its TimeoutError,
\* a later completion signal of that invocation (done(), done(err), the
\* settlement of the returned promise, a skip, a further expiry) calls the
\* callback no further, emits no multiple-completion event and leaves the
\* duration and the delivered error as they are.
C29_IgnoredAfterTimeout ==
    [][(TimeoutDelivered /\ CompletionSignal) =>
           /\ fnCalls' = fnCalls
           /\ emitted' = emitted
           /\ duration' = duration
           /\ finished' = finished]_vars

\* the body called done() after the timeout was delivered and nothing was
\* reported
C29_Witness ==
    /\ TimeoutDelivered
    /\ doneCalls > 0
    /\ fnCalls = <<createTimeoutError(timeoutMs)>>
    /\ emitted = <<>>
    /\ pc = "waiting"

\* the body of the running invocation signals completion: it calls done,
\* the promise it returned settles, it returns synchronously, or it throws
\* and run() catches the error
BodySignals ==
    \/ \E arg \in DoneArgs : BodyDone(arg)
    \/ \E how \in Settlements : PromiseSettles(how)
    \/ BodyReturns("undefined") /\ ~cfg.async
    \/ \E v \in ThrownValues : BodyThrows(v) /\ ~cfg.allowUncaught

\* C31 as stated: the first completion signal of the body of an invocation
\* on a Runnable that is not pending calls the completion callback of that
\* invocation, and no invocation calls it twice, whatever happened to the
\* Runnable in earlier invocations.
C31_AsStated ==
    [][/\ Len(fnCalls') <= 1
       /\ (BodySignals /\ ~isPending /\ fnCalls = <<>> /\ ~finished) =>
              Len(fnCalls') = 1]_vars

\* the same while timedOut is unset: what holds of the code
C31_Unexpired ==
    [][/\ Len(fnCalls') <= 1
       /\ (BodySignals /\ ~isPending /\ fnCalls = <<>> /\ ~finished /\ ~timedOut) =>
              Len(fnCalls') = 1]_vars

\* C32: an invocation emits at most one multiple-completion error event;
\* the step in which the body throws synchronously emits none, also when
\* the body had signalled completion before (the callback is not called
\* again), and once errorWasHandled is set no further step of the
\* invocation emits one.
C32_OneEvent ==
    /\ [](Len(emitted) <= 1)
    /\ [][/\ (\E v \in ThrownValues : BodyThrows(v)) =>
                 /\ emitted' = emitted
                 /\ fnCalls # <<>> => fnCalls' = fnCalls
          /\ (errorWasHandled /\ ~\E p \in {"silent", "active"} : Run(p)) =>
                 emitted' = emitted]_vars

\* the body called done() twice and then its timer expired: three
\* completion signals, one callback call, one event
C32_Witness ==
    /\ doneCalls = 2
    /\ timedOut
    /\ fnCalls = <<NoErr>>
    /\ Len(emitted) = 1

(***************************************************************************)
(* Claims about execute                                                    *)
(***************************************************************************)
Resolved == settled.state = "resolved"

\* C3: for stdout and for stderr the captured bytes never exceed the
\* stream's limit, a chunk of one stream leaves the buffer of the other
\* alone, and the result's standardOutput / standardError are exactly the
\* bytes captured when the exit event arrives.
C3_Buffers ==
    [][/\ Len(standardOutput') = options.standardOutputLimit
       /\ standardOutputOffset' <= options.standardOutputLimit
       /\ Len(standardError') = options.standardErrorLimit
       /\ standardErrorOffset' <= options.standardErrorLimit
       /\ (\E n \in 1..MaxBytes : StdoutData(n)) =>
              UNCHANGED <<standardError, standardErrorOffset>>
       /\ (\E n \in 1..MaxBytes : StderrData(n)) =>
              UNCHANGED <<standardOutput, standardOutputOffset>>
       /\ (ExitEvent /\ settled.state = "pending") =>
              /\ utf8Encode(settled'.value.standardOutput)
                    = SubSeq(standardOutput, 1, standardOutputOffset)
              /\ utf8Encode(settled'.value.standardError)
                    = SubSeq(standardError, 1, standardErrorOffset)]_vars

\* a result that holds a full standard output buffer and some standard error
C3_Witness ==
    /\ Resolved
    /\ standardOutputOffset = options.standardOutputLimit
    /\ utf8Encode(settled.value.standardOutput) = SubSeq(standardOutput, 1, standardOutputOffset)
    /\ Len(settled.value.standardError) > 0

\* C4 as stated: whenever the child wrote more than the stdout limit, the
\* result has reason standard_output_exceeded, at most limit bytes of
\* standardOutput, no exit code and the kill signal.
C4_AsStated ==
    (Resolved /\ Len(outData) > options.standardOutputLimit) =>
        /\ settled.value.reason = "standard_output_exceeded"
        /\ Len(utf8Encode(settled.value.standardOutput)) <= options.standardOutputLimit
        /\ settled.value.exitCode = "null"
        /\ settled.value.signal = "SIGKILL"

\* C5 as stated: a chunk sets the exceeded reason of its stream and issues
\* the kill exactly when it does not fit in the remaining capacity, and the
\* captured content is the prefix of the delivered bytes of length
\* min(delivered, limit).
C5_AsStated ==
    [][/\ \A n \in 1..MaxBytes : StdoutData(n) =>
              /\ (killCalls' = killCalls + 1)
                    <=> (n > options.standardOutputLimit - standardOutputOffset)
              /\ IF n > options.standardOutputLimit - standardOutputOffset
                    THEN reason' = "standard_output_exceeded"
                    ELSE reason' = reason
              /\ SubSeq(standardOutput', 1, standardOutputOffset')
                    = SubSeq(outData, 1, Min(outRead', options.standardOutputLimit))
       /\ \A n \in 1..MaxBytes : StderrData(n) =>
              /\ (killCalls' = killCalls + 1)
                    <=> (n > options.standardErrorLimit - standardErrorOffset)
              /\ IF n > options.standardErrorLimit - standardErrorOffset
                    THEN reason' = "standard_error_exceeded"
                    ELSE reason' = reason
              /\ SubSeq(standardError', 1, standardErrorOffset')
                    = SubSeq(errData, 1, Min(errRead', options.standardErrorLimit))]_vars

C7_AsStated ==
    (/\ Resolved
     /\ spawnedProcess.state = "exited"
     /\ Len(outData) <= options.standardOutputLimit
     /\ Len(errData) <= options.standardErrorLimit) =>
        /\ settled.value.exitCode = spawnedProcess.exitCode
        /\ settled.value.reason = "success"
        /\ settled.value.standardOutput = utf8Decode(outData)
        /\ settled.value.standardError = utf8Decode(errData)

\* C8: the promise settles at most once: a settled promise never changes;
\* it is rejected only by the error event of the child, and the exit event
\* of a child that has ended (by itself, by the timeout, by the kill after
\* an overflow) resolves it with a result.
C8_SettlesOnce ==
    [][/\ settled.state # "pending" => settled' = settled
       /\ (settled.state = "pending" /\ settled'.state = "rejected") => ErrorEvent
       /\ ExitEvent =>
              /\ settled'.state = "resolved"
              /\ settled'.value.reason \in Reasons
              /\ settled'.value.exitCode = spawnedProcess.exitCode
              /\ settled'.value.signal = spawnedProcess.signalCode]_vars

\* the exit event came after the error event and the promise is still rejected
C8_Witness ==
    /\ settled.state = "rejected"
    /\ errorEmitted
    /\ exitEmitted

\* C9: with a timeout configured every call settles, whatever the child
\* does; and a call whose child has written more than a limit settles.
C9_Settles ==
    (\/ options.timeout > 0
     \/ Len(outData) > options.standardOutputLimit
     \/ Len(errData) > options.standardErrorLimit) ~> (settled.state # "pending")

\* a child that wrote nothing was killed by the timeout and the call resolved
C9_Witness ==
    /\ options.timeout > 0
    /\ timeoutKilled
    /\ outData = <<>> /\ errData = <<>>
    /\ spawnedProcess.state = "killed"
    /\ Resolved

(***************************************************************************)
(* Claims about the Mocha instance                                         *)
(***************************************************************************)
RunInProgress == \E q \in RunnerIds : runners[q] = "running"

\* C10 as stated: a run() issued while an accepted run is in progress is
\* rejected with the already-running error and starts nothing, so that two
\* runs never overlap.
C10_AsStated ==
    [][\A r \in RunnerIds, loads \in BOOLEAN :
          (MochaRun(r, loads) /\ RunInProgress) =>
              /\ thrown' = "alreadyRunning"
              /\ runners' = runners]_vars

\* C11 as stated: once dispose() has succeeded the instance stays disposed,
\* whatever operation or event follows (run, unloadFiles, dispose, the
\* completion of a run started earlier), and no later run() starts a runner.
C11_AsStated ==
    [][mochaState = DISPOSED =>
          /\ mochaState' = DISPOSED
          /\ \A r \in RunnerIds : runners[r] = "none" => runners'[r] = "none"]_vars

\* C33 as stated: a run() that passes its state guard and then fails
\* synchronously (loading a test file throws) does not leave the instance in
\* the running state, so that the instance is in the running state only
\* while an accepted run is in progress and a later run() or dispose() is
\* rejected as already-running only then.
C33_AsStated ==
    /\ thrown = "loadError" => mochaState # RUNNING
    /\ thrown \in {"alreadyRunning", "disposeWhileRunning"} => RunInProgress

\* C12: the completion of an accepted run leaves the instance in
\* referencesCleaned when cleanReferencesAfterRun is enabled and in init
\* otherwise; in referencesCleaned run() is rejected with the
\* already-disposed error and starts nothing, unloadFiles() brings the
\* instance to init, and in init run() is accepted.
C12_AfterRun ==
    [][/\ \A r \in RunnerIds :
              RunDone(r) =>
                  mochaState' = IF cleanReferencesAfterRun
                                    THEN REFERENCES_CLEANED ELSE INIT
       /\ \A r \in RunnerIds, loads \in BOOLEAN :
              MochaRun(r, loads) =>
                  /\ mochaState = REFERENCES_CLEANED =>
                         /\ thrown' = "alreadyDisposed"
                         /\ mochaState' = REFERENCES_CLEANED
                         /\ runners' = runners
                  /\ mochaState = INIT =>
                         /\ mochaState' = RUNNING
                         /\ thrown' # "alreadyDisposed"
                         /\ thrown' # "alreadyRunning"
                         /\ loads => runners'[r] = "running"
       /\ (UnloadFiles /\ mochaState = REFERENCES_CLEANED) => mochaState' = INIT]_vars

\* the first run completed and cleaned the references, and a run() was then
\* rejected as already disposed
C12_Witness ==
    /\ runners[1] = "done"
    /\ runners[2] = "none"
    /\ previousRunner = 1
    /\ mochaState = REFERENCES_CLEANED
    /\ thrown = "alreadyDisposed"

(***************************************************************************)
(* Claims about the runner                                                 *)
(***************************************************************************)
\* C13: with maxRetries = N >= 0, a test whose body failed in every attempt
\* was executed N+1 times when it ends failed, and a test that ends passed
\* after k failed attempts has k <= N, was executed k+1 times, has
\* currentRetry = k at finalization and no failure reported.
C13_RetryLaw ==
    maxRetries >= 0 =>
        \A s \in Suites :
            /\ (rState[s] = "failed" /\ rErr[s] = "body") =>
                   /\ rAttempts[s] = maxRetries + 1
                   /\ rBodyFails[s] = maxRetries + 1
            /\ rState[s] = "passed" =>
                   /\ rBodyFails[s] <= maxRetries
                   /\ rAttempts[s] = rBodyFails[s] + 1
                   /\ rFinalRetry[s] = rBodyFails[s]
                   /\ rTestFailures[s] = 0

\* with maxRetries = 2 the root's test failed twice and passed in the third attempt
C13_Witness ==
    /\ maxRetries = 2
    /\ rState[1] = "passed"
    /\ rBodyFails[1] = 2
    /\ rAttempts[1] = 3
    /\ rFinalRetry[1] = 2
    /\ rTestFailures[1] = 0

\* the hooks declared for the test of s: before its body those of the
\* suites from the root down to s, after it those of the same suites from
\* s back to the root
HooksBefore(s) ==
    [i \in 1..Len(ancestors(s)) |-> [ph |-> "beforeEach", s |-> ancestors(s)[i]]]
HooksAfter(s) ==
    [i \in 1..Len(ancestors(s)) |->
        [ph |-> "afterEach", s |-> ancestors(s)[Len(ancestors(s)) + 1 - i]]]
AttemptOf(s) == HooksBefore(s) \o <<[ph |-> "test", s |-> s]>>

\* C14: when the body of a test is executed, the hooks invoked for it
\* before are exactly the beforeEach hooks declared on the suites from the
\* root down to its suite, in that order; the hooks invoked after it are
\* the afterEach hooks of the same suites from its suite back to the root,
\* and no other hook runs for the test.
C14_HookChains ==
    /\ rPos.ph = "test" => rLog = AttemptOf(rPos.s)
    /\ \A j \in 1..Len(rLog) :
           rLog[j].ph = "test" =>
               LET s == rLog[j].s
               IN  IF rPos.ph \in {"test", "afterEach"}
                       THEN \E n \in 0..Len(ancestors(s)) :
                                rLog = AttemptOf(s) \o SubSeq(HooksAfter(s), 1, n)
                       ELSE rLog = AttemptOf(s) \o HooksAfter(s)

\* the test of suite 2 is over: root's and its own beforeEach hook, the
\* body, its own and root's afterEach hook
C14_Witness ==
    /\ rPos.ph = "afterAll"
    /\ rPos.s = 2
    /\ rState[2] = "passed"
    /\ rLog = <<[ph |-> "beforeEach", s |-> 1], [ph |-> "beforeEach", s |-> 2],
                [ph |-> "test", s |-> 2],
                [ph |-> "afterEach", s |-> 2], [ph |-> "afterEach", s |-> 1]>>

\* C15: when the beforeAll hook of suite S has failed, one failure is
\* reported, for the hook; no test of S or of a suite below S is executed,
\* passed or failed; and the afterAll hook of S is run.
C15_BeforeAllFails ==
    \A S \in Suites :
        rHookFailures[S] >= 1 =>
            /\ rHookFailures[S] = 1
            /\ \A d \in Suites :
                   (\E i \in 1..Len(ancestors(d)) : ancestors(d)[i] = S) =>
                       /\ rAttempts[d] = 0
                       /\ rState[d] = "unset"
                       /\ rTestFailures[d] = 0
            /\ S \in rAfterAll

\* the beforeAll hook of the root failed and signalled once more; the run
\* is over and no test was touched
C15_Witness ==
    /\ rPos = EndPos
    /\ rHookFailures[1] = 1
    /\ rSignals >= 1
    /\ rAfterAll = {1}

\* C16: at most one runnable of the run is executing: a runnable is
\* invoked only when the one invoked before it has delivered its completion.
C16_OneAtATime ==
    /\ [](rExecuting <= 1)
    /\ [][rPos' # rPos => rExecuting' = (IF rPos' = EndPos THEN 0 ELSE 1)]_vars

\* a hook that completed gave one more completion signal while the body of
\* the test was executing
C16_Witness ==
    /\ rPos.ph = "test"
    /\ rPrevPos.ph = "beforeEach"
    /\ rSignals >= 1
    /\ rExecuting = 1

(***************************************************************************)
(* Claims about Runnable.timeout                                           *)
(***************************************************************************)
\* C30: timeout(ms) stores ms when 0 < ms < 2^31 - 1 and stores 0 when ms is
\* negative, 0, 2^31 - 1 or larger; the stored value is 0 or lies in
\* 1..2^31 - 2.
C30_StoredTimeout ==
    tCalled =>
        /\ tTimeout = IF lessThan(number(0, 0), tArg) /\ lessThan(tArg, number(INT_MAX, 0))
                          THEN tArg ELSE number(0, 0)
        /\ tTimeout.over = 0
        /\ tTimeout.base = 0 \/ (1 <= tTimeout.base /\ tTimeout.base <= INT_MAX - 1)

\* timeout(ms) was called with a number above 2^31 - 1 and stored 0
C30_Witness ==
    /\ tCalled
    /\ tArg.base = INT_MAX /\ tArg.over > 0
    /\ tTimeout = number(0, 0)

(***************************************************************************)
(* Claims about declarations and Test objects                              *)
(***************************************************************************)
OnlyDeclaration ==
    \/ \E title \in Titles, fn \in BOOLEAN : DescribeOnly(title, fn)
    \/ \E fn \in BOOLEAN : ItOnly(fn)

\* the number of suites and tests marked only
OnlyMarks(objs, tsts) ==
    Cardinality({s \in 1..Len(objs) : objs[s].only})
        + Cardinality({t \in 1..Len(tsts) : tsts[t].only})

Selected(title) ==
    \/ mochaOptions.grep = "none"
    \/ grepTest(mochaOptions.grep, title) # mochaOptions.invert

\* C22 as stated: with forbidPending, declaring a pending suite raises the
\* configuration error exactly when the text filter selects the suite's full
\* title, an inverted filter selecting the titles it does not match.
C22_AsStated ==
    [][(mochaOptions.forbidPending
          /\ \E title \in Titles, fn \in BOOLEAN : DescribeSkip(title, fn)) =>
            (declThrown' = "Unsupported"
                <=> Selected(fullTitle(suiteObjs', Len(suiteObjs'))))]_vars

\* C24: a Test is pending exactly when it has no body, after its
\* construction and after every reset(); skip() makes a Test that has a body
\* pending, and the next reset() ends that.
C24_PendingIffNoBody ==
    [][/\ (\E fn \in BOOLEAN : It(fn) \/ ItOnly(fn)) =>
              (tests'[Len(tests')].pending <=> ~tests'[Len(tests')].fn)
       /\ \A i \in 1..Len(tests) :
              /\ TestIsReset(i) => (tests'[i].pending <=> ~tests'[i].fn)
              /\ TestSkips(i) => (tests'[i].pending /\ tests'[i].fn)]_vars

\* every test was reset: the one without body is pending, the one with a
\* body is not
C24_Witness ==
    /\ resets = MaxResets
    /\ \E i, j \in 1..Len(tests) :
           /\ ~tests[i].fn /\ tests[i].pending
           /\ tests[j].fn /\ ~tests[j].pending

(***************************************************************************)
(* Claims about spawnPrints                                                *)
(***************************************************************************)
\* C26: once spawnPrints has gone on after execute settled, it has raised an
\* AssertionError exactly when execute resolved and the captured standard
\* output differs from expectedOutput or the captured standard error from
\* expectedError; it returned normally when execute resolved and both are
\* equal; and when execute rejected it rejected with an error that is no
\* AssertionError.
C26_SpawnPrints ==
    (spExecution.state \in {"resolved", "rejected"} /\ spOutcome.state # "awaiting") =>
        /\ spOutcome.kind = "AssertionError" <=>
               /\ spExecution.state = "resolved"
               /\ \/ spExecution.standardOutput # spExpected.output
                  \/ spExecution.standardError # spExpected.error
        /\ spOutcome.state = "fulfilled" <=>
               /\ spExecution.state = "resolved"
               /\ spExecution.standardOutput = spExpected.output
               /\ spExecution.standardError = spExpected.error
        /\ spExecution.state = "rejected" =>
               spOutcome.state = "rejected" /\ spOutcome.kind # "AssertionError"

\* the standard output was as expected, the standard error was not, and
\* spawnPrints raised an AssertionError
C26_Witness ==
    /\ spExecution.state = "resolved"
    /\ spExecution.standardOutput = spExpected.output
    /\ spExecution.standardError # spExpected.error
    /\ spOutcome = [state |-> "rejected", kind |-> "AssertionError"]

(***************************************************************************)
(* Claims about the stats collector                                        *)
(***************************************************************************)
\* C27: tests, passes, failures and pending equal the number of testEnd,
\* testPass, testFail and testPending events emitted so far, suites the
\* number of suiteBegin events for suites other than the root; a counter
\* changes only in the step that emits its event; start changes only at the
\* first runBegin, end and duration only at the first runEnd.
C27_Counters ==
    /\ [](/\ stats.tests = eventCount["testEnd"]
          /\ stats.passes = eventCount["testPass"]
          /\ stats.failures = eventCount["testFail"]
          /\ stats.pending = eventCount["testPending"]
          /\ stats.suites = eventCount["suiteBegin"])
    /\ [][/\ stats'.tests # stats.tests => Emit("testEnd")
          /\ stats'.passes # stats.passes => Emit("testPass")
          /\ stats'.failures # stats.failures => Emit("testFail")
          /\ stats'.pending # stats.pending => Emit("testPending")
          /\ stats'.suites # stats.suites => Emit("suiteBegin")
          /\ stats'.start # stats.start => Emit("runBegin") /\ eventCount["runBegin"] = 0
          /\ (stats'.end # stats.end \/ stats'.duration # stats.duration) =>
                 Emit("runEnd") /\ eventCount["runEnd"] = 0
          /\ (Emit("runBegin") /\ eventCount["runBegin"] = 0) => stats'.start = clock
          /\ (Emit("runEnd") /\ eventCount["runEnd"] = 0) => stats'.end = clock]_vars

\* runBegin was emitted twice and the root suite began: start is the time
\* of the first runBegin and no suite is counted
C27_Witness ==
    /\ eventCount["runBegin"] = 2
    /\ stats.start = 0 /\ clock > 0
    /\ eventCount["suiteBeginRoot"] = 1
    /\ stats.suites = 0

(***************************************************************************)
(* Claims about concurrent execute calls                                   *)
(***************************************************************************)
\* what a call's result is made of: its child, the bytes delivered to it,
\* the locals of its executor, its promise
CallState(c) ==
    <<procs[c], written[c], delivery[c], closures[closureOf(c)], promises[c]>>

\* C25: of two execute calls in progress, a step of one call (of its child,
\* of one of its data, exit or error handlers) leaves the child, the
\* captured bytes, the reason and the promise of the other call as they
\* are; what a call captured is a prefix of what its own child wrote, and a
\* result is made of the exit code and signal of its own child, of text its
\* own child wrote, and of a reason its own child gave cause for.
C25_Independent ==
    /\ [][\A c \in Calls : \A d \in Calls \ {c} :
              CallStep(d) => CallState(c)' = CallState(c)]_vars
    /\ [](\A c \in Calls :
            LET cl == closures[closureOf(c)]
                v == promises[c].value
            IN  /\ cl.standardOutputOffset <= Len(written[c].out)
                /\ SubSeq(cl.standardOutput, 1, cl.standardOutputOffset)
                       = SubSeq(written[c].out, 1, cl.standardOutputOffset)
                /\ cl.standardErrorOffset <= Len(written[c].err)
                /\ SubSeq(cl.standardError, 1, cl.standardErrorOffset)
                       = SubSeq(written[c].err, 1, cl.standardErrorOffset)
                /\ promises[c].state = "resolved" =>
                       /\ v.exitCode = procs[c].exitCode
                       /\ v.signal = procs[c].signalCode
                       /\ Len(v.standardOutput) <= Len(written[c].out)
                       /\ Len(v.standardError) <= Len(written[c].err)
                       /\ v.standardOutput
                              = utf8Decode(SubSeq(written[c].out, 1, Len(v.standardOutput)))
                       /\ v.standardError
                              = utf8Decode(SubSeq(written[c].err, 1, Len(v.standardError)))
                       /\ v.reason = "standard_output_exceeded" =>
                              Len(written[c].out) > CallLimit
                       /\ v.reason = "standard_error_exceeded" =>
                              Len(written[c].err) > CallLimit)

\* the first call was killed for too much standard output while the second
\* one, whose child wrote to both streams, resolved with success
C25_Witness ==
    /\ promises[1].state = "resolved" /\ promises[2].state = "resolved"
    /\ promises[1].value.reason = "standard_output_exceeded"
    /\ promises[1].value.signal = "SIGKILL"
    /\ promises[1].value.standardOutput = <<"A">>
    /\ promises[2].value.reason = "success"
    /\ promises[2].value.exitCode = 0
    /\ promises[2].value.standardOutput = <<"NUL">>
    /\ promises[2].value.standardError = <<"NUL">>

(***************************************************************************)
(* Claims about running a tree again                                       *)
(***************************************************************************)
\* C23: on an instance that keeps its references, with bodies that do the
\* same on every run, every completed run of the tree reports the same
\* per-test states and the same counters as the first one; a run() after a
\* completed run begins with every test as it was after construction and
\* with counters of zero.
C23_SameAgain ==
    /\ [](\A r \in 1..Len(sReports) : sReports[r] = sReports[1])
    /\ [][(SessionRun /\ sPrevious # 0) =>
              /\ \A i \in 1..Len(sTests) : sTests'[i] = Test(1, sTests[i].fn)
              /\ sStats' = newStats]_vars

\* two runs completed; the tree has a test that timed out and a test that
\* called skip() in each of them
C23_Witness ==
    /\ Len(sReports) = 2
    /\ sReports[2].counters.failures = 1
    /\ sReports[2].counters.pending = 1
    /\ \E i, j \in 1..Len(sTests) :
           /\ sBodies[i] = "timesOut" /\ sReports[2].tests[i].timedOut
           /\ sBodies[j] = "skips" /\ sReports[2].tests[j].pending /\ sTests[j].fn

(***************************************************************************)
(* Claims about the standard input of execute                              *)
(***************************************************************************)
GivenInput ==
    IF "standardInput" \in DOMAIN customOptions /\ customOptions.standardInput.type = "string"
    THEN customOptions.standardInput.chars
    ELSE <<>>

\* C34: in execute, when standardInput is a non-empty string, exactly
\* standardInput followed by one newline is written to the child's standard
\* input and the stream is then closed; when standardInput is absent or empty
\* nothing is written and execute does not close the child's standard input.
\* What the child reads is a prefix of that, and it sees the end of its input
\* only in the first case.
C34_StandardInput ==
    /\ stdinCalled =>
           IF GivenInput # <<>>
           THEN /\ Len(stdinWritten) = Len(GivenInput) + 1
                /\ SubSeq(stdinWritten, 1, Len(GivenInput)) = GivenInput
                /\ stdinWritten[Len(stdinWritten)] = "\n"
                /\ stdinEnded
           ELSE /\ stdinWritten = <<>>
                /\ ~stdinEnded
    /\ ~stdinCalled => stdinWritten = <<>> /\ ~stdinEnded
    /\ stdinEof => GivenInput # <<>> /\ stdinRead = Len(GivenInput) + 1

C34_Witness ==
    /\ stdinCalled
    /\ Len(GivenInput) = 2
    /\ GivenInput[2] = "\n"
    /\ stdinWritten = GivenInput \o <<"\n">>
    /\ stdinEof

(***************************************************************************)
(* Claims about reset()                                                    *)
(***************************************************************************)
\* C35: reset() on a Test or Hook clears exactly the per-run state (state and
\* err removed, timedOut false, currentRetry 0, pending recomputed from the
\* body for a test and false for a hook, a hook's stored error removed) and
\* leaves title, body, parent and the configured timeout, slow and retries
\* values unchanged; a second reset changes nothing.
C35_Reset ==
    [][ObjIsReset =>
          /\ obj'.state = "unset" /\ obj'.err = "unset"
          /\ obj'.timedOut = FALSE /\ obj'.currentRetry = 0
          /\ obj'.pending = (obj.type = "test" /\ ~obj.fn)
          /\ obj.type = "hook" => obj'.error = "unset"
          /\ DOMAIN obj' = DOMAIN obj
          /\ \A k \in {"type", "title", "fn", "parent", "timeoutMs", "slowMs", "retriesN"} :
                obj'[k] = obj[k]
          /\ ObjReset(obj') = obj']_vars

C35_Witness ==
    /\ objOp = "reset"
    /\ obj.type = "hook"
    /\ obj.retriesN = 1 /\ obj.slowMs = 1 /\ obj.timeoutMs = number(1, 0)
    /\ obj.err = "unset" /\ obj.error = "unset" /\ obj.state = "unset"

(***************************************************************************)
(* Claims about the suite stack                                            *)
(***************************************************************************)
\* C36 as stated: a call to common.suite.create leaves the suite stack as it
\* was before the call once the call ends, whether it returns or throws, so
\* that once an error has left every enclosing create the stack holds the
\* root alone, and a create that throws by itself leaves the stack as it
\* found it; while bodies run, each suite on the stack is a child of the
\* suite below it.
C36_AsStated ==
    /\ [](declThrown # "none" => suites = <<1>>)
    /\ [](\A i \in 1..(Len(suites) - 1) : suiteObjs[suites[i]].parent = suites[i + 1])
    /\ [][(declThrown = "none" /\ declThrown' \in {"Unsupported", "MissingArgument"}) =>
              suites' = suites]_vars

(***************************************************************************)
(* Claims about the QUnit-style interface                                  *)
(***************************************************************************)
LastSuite == Len(suiteObjs)

\* C37: in the QUnit-style interface, after any sequence of suite() and
\* test() declarations the suite stack holds at most two entries, the root
\* at the bottom and above it at most the most recently declared suite;
\* every declared suite is a direct child of the root; and each test is
\* added to the suite on top of the stack, which is the most recently
\* declared suite unless that suite was declared pending, and the root when
\* no suite was declared or the latest one is pending.
C37_Stack ==
    /\ [](/\ Len(suites) \in 1..2
          /\ suites[Len(suites)] = 1
          /\ Len(suites) = 2 => suites[1] = LastSuite /\ LastSuite > 1
          /\ \A s \in 2..LastSuite : suiteObjs[s].parent = 1)
    /\ [][tests' # tests =>
              /\ Len(tests') = Len(tests) + 1
              /\ tests'[Len(tests')].parent = suites[1]
              /\ suites[1] = IF LastSuite > 1 /\ ~suiteObjs[LastSuite].pending
                                 THEN LastSuite ELSE 1]_vars

C37_Witness ==
    /\ LastSuite = 3
    /\ suites = <<3, 1>>
    /\ Len(tests) = 1
    /\ tests[1].parent = 3
    /\ declThrown = "none"

\* C38 as stated: in the QUnit-style interface test.only(title, fn)
\* registers the test that a plain test declaration with body fn would
\* register (non-pending when fn is a function, with body fn), additionally
\* marked only.
C38_AsStated ==
    [][\A fn \in BOOLEAN :
          (QTestOnly(fn) /\ ~mochaOptions.forbidOnly) =>
              /\ \E d \in Descriptions :
                    tests'[Len(tests')] = [contextTest(d, fn) EXCEPT !.only = TRUE]
              /\ tests'[Len(tests')].pending = ~fn]_vars

====
